---------------------------- MODULE Spec2Model ----------------------------
(***************************************************************************)
(* FPRModeller: the FPR target calculation, the yearly progression of a    *)
(* nodal point and the cost aggregation of src/main.py, as state machines. *)
(* Python's floats are modelled by exact fractions.                        *)
(***************************************************************************)
EXTENDS Integers, Sequences, FiniteSets, TLC

(***************************************************************************)
(* Numbers.  TLC's integers are 32 bits wide, so a natural number is kept  *)
(* as a sequence of base-10000 limbs, least significant first, without a   *)
(* leading zero limb (<<>> is 0).  A number of the program is a signed     *)
(* fraction [s, n, d] of two such naturals; Python's None is the record    *)
(* with an empty denominator.                                              *)
(***************************************************************************)
RECURSIVE BStrip(_)
BStrip(a) ==
  IF a = <<>> THEN a
  ELSE IF a[Len(a)] = 0 THEN BStrip(SubSeq(a, 1, Len(a) - 1)) ELSE a

RECURSIVE BOf(_)
BOf(k) == IF k = 0 THEN <<>> ELSE <<k % 10000>> \o BOf(k \div 10000)

RECURSIVE BAddC(_, _, _)
BAddC(a, b, c) ==
  IF a = <<>> /\ b = <<>> THEN (IF c = 0 THEN <<>> ELSE <<c>>)
  ELSE LET x == IF a = <<>> THEN 0 ELSE Head(a)
           y == IF b = <<>> THEN 0 ELSE Head(b)
           s == x + y + c
       IN  <<s % 10000>> \o BAddC(IF a = <<>> THEN a ELSE Tail(a),
                                  IF b = <<>> THEN b ELSE Tail(b),
                                  s \div 10000)

BAdd(a, b) == BAddC(a, b, 0)

RECURSIVE BSubC(_, _, _)
BSubC(a, b, c) ==
  IF a = <<>> THEN <<>>
  ELSE LET y == IF b = <<>> THEN 0 ELSE Head(b)
           s == Head(a) - y - c
       IN  <<(s + 10000) % 10000>> \o BSubC(Tail(a),
                                            IF b = <<>> THEN b ELSE Tail(b),
                                            IF s < 0 THEN 1 ELSE 0)

BSub(a, b) == BStrip(BSubC(a, b, 0))

RECURSIVE BCmpAt(_, _, _)
BCmpAt(a, b, i) ==
  IF i = 0 THEN 0
  ELSE IF a[i] < b[i] THEN -1
  ELSE IF a[i] > b[i] THEN 1
  ELSE BCmpAt(a, b, i - 1)

BCmp(a, b) ==
  IF Len(a) < Len(b) THEN -1
  ELSE IF Len(a) > Len(b) THEN 1
  ELSE BCmpAt(a, b, Len(a))

RECURSIVE BMulS(_, _, _)
BMulS(a, k, c) ==
  IF a = <<>> THEN (IF c = 0 THEN <<>> ELSE <<c>>)
  ELSE LET s == Head(a) * k + c
       IN  <<s % 10000>> \o BMulS(Tail(a), k, s \div 10000)

RECURSIVE BMul(_, _)
BMul(a, b) ==
  IF a = <<>> \/ b = <<>> THEN <<>>
  ELSE LET rest == BMul(a, Tail(b))
       IN  BAdd(BMulS(a, Head(b), 0), IF rest = <<>> THEN rest ELSE <<0>> \o rest)

\* a mod k and a div k for a machine integer 0 < k <= 200000
RECURSIVE BModAt(_, _, _, _)
BModAt(a, k, i, r) ==
  IF i = 0 THEN r ELSE BModAt(a, k, i - 1, (r * 10000 + a[i]) % k)

BModS(a, k) == BModAt(a, k, Len(a), 0)

RECURSIVE BDivAt(_, _, _, _)
BDivAt(a, k, i, r) ==
  IF i = 0 THEN <<>>
  ELSE LET v == r * 10000 + a[i]
       IN  BDivAt(a, k, i - 1, v % k) \o <<v \div k>>

BDivS(a, k) == BStrip(BDivAt(a, k, Len(a), 0))

None == [s |-> 0, n |-> <<>>, d |-> <<>>]

IsNone(a) == a.d = <<>>

RZero == [s |-> 0, n |-> <<>>, d |-> <<1>>]

\* Fractions are kept small by cancelling the factors that the program's
\* divisors bring in: powers of ten, 52 weeks, 40 hours, the rates 1.03 and
\* 1.1, and the odd parts of the five base pays.
CancelFactors == << 10000, 2, 5, 3, 7, 11, 13, 103, 23, 199, 59, 89, 29, 1721,
                    2473, 313 >>

RECURSIVE RCancel(_, _)
RCancel(a, i) ==
  IF i > Len(CancelFactors) THEN a
  ELSE IF BModS(a.n, CancelFactors[i]) = 0 /\ BModS(a.d, CancelFactors[i]) = 0
    THEN RCancel([a EXCEPT !.n = BDivS(a.n, CancelFactors[i]),
                           !.d = BDivS(a.d, CancelFactors[i])], i)
  ELSE RCancel(a, i + 1)

RNorm(a) == IF Len(a.d) >= 3 THEN RCancel(a, 1) ELSE a

\* the fraction k / scale of two machine integers, scale > 0
RDec(k, scale) ==
  IF k = 0 THEN RZero
  ELSE [s |-> IF k < 0 THEN -1 ELSE 1,
        n |-> BOf(IF k < 0 THEN -k ELSE k),
        d |-> BOf(scale)]

RInt(k) == RDec(k, 1)

ROne == RInt(1)

RNeg(a) == [a EXCEPT !.s = -a.s]

RMul(a, b) ==
  IF a.s = 0 \/ b.s = 0 THEN RZero
  ELSE RNorm([s |-> a.s * b.s, n |-> BMul(a.n, b.n), d |-> BMul(a.d, b.d)])

\* the sum of two fractions over the common denominator d, x and y being
\* their numerators there and c the sign of x - y
RAddSigned(sa, x, sb, y, d, c) ==
  IF sa = sb THEN RNorm([s |-> sa, n |-> BAdd(x, y), d |-> d])
  ELSE IF c = 0 THEN RZero
  ELSE IF c > 0 THEN RNorm([s |-> sa, n |-> BSub(x, y), d |-> d])
  ELSE RNorm([s |-> sb, n |-> BSub(y, x), d |-> d])

RAddOver(sa, x, sb, y, d) == RAddSigned(sa, x, sb, y, d, BCmp(x, y))

RAdd(a, b) ==
  IF a.s = 0 THEN b
  ELSE IF b.s = 0 THEN a
  ELSE IF a.d = b.d THEN RAddOver(a.s, a.n, b.s, b.n, a.d)
  ELSE RAddOver(a.s, BMul(a.n, b.d), b.s, BMul(b.n, a.d), BMul(a.d, b.d))

RSub(a, b) == RAdd(a, RNeg(b))

\* a / b for b # 0 (the callers raise ZeroDivisionError before dividing by 0)
RDiv(a, b) ==
  IF a.s = 0 THEN RZero
  ELSE RNorm([s |-> a.s * b.s, n |-> BMul(a.n, b.d), d |-> BMul(a.d, b.n)])

\* the sign of a - b
RCmp(a, b) ==
  IF a.s # b.s THEN (IF a.s < b.s THEN -1 ELSE 1)
  ELSE IF a.s = 0 THEN 0
  ELSE a.s * BCmp(BMul(a.n, b.d), BMul(b.n, a.d))

REq(a, b) == RCmp(a, b) = 0

RLe(a, b) == RCmp(a, b) <= 0

RLt(a, b) == RCmp(a, b) < 0

RGt(a, b) == RCmp(a, b) > 0

(***************************************************************************)
(* Constants of src/main.py.                                               *)
(***************************************************************************)
\* (name, 2024/25 actual pay, 2025/26 offered pay)
NODAL_POINTS ==
  << [name |-> "Nodal 1", base_pay |-> 36616, post_ddrb_pay |-> 38831],
     [name |-> "Nodal 2", base_pay |-> 42008, post_ddrb_pay |-> 44439],
     [name |-> "Nodal 3", base_pay |-> 49909, post_ddrb_pay |-> 52656],
     [name |-> "Nodal 4", base_pay |-> 61825, post_ddrb_pay |-> 65048],
     [name |-> "Nodal 5", base_pay |-> 70425, post_ddrb_pay |-> 73992] >>

NodalNames == {NODAL_POINTS[i].name : i \in 1..Len(NODAL_POINTS)}

AVAILABLE_YEARS ==
  << "2008/2009", "2009/2010", "2010/2011", "2011/2012", "2012/2013",
     "2013/2014", "2014/2015", "2015/2016", "2016/2017", "2017/2018",
     "2018/2019", "2019/2020", "2020/2021", "2021/2022", "2022/2023",
     "2023/2024", "2024/2025", "2025/2026" >>

\* a decimal with eleven places, 0.hhmmmmllll, as the 2025/2026 awards are written
Dec11(hi, mid, lo) == [s |-> 1, n |-> <<lo, mid, hi>>, d |-> <<0, 0, 1000>>]

NODAL_SPECIFIC_PAY_AWARDS ==
  [y \in {"2023/2024", "2024/2025", "2025/2026"} |->
     CASE y = "2023/2024" ->
            [b \in NodalNames |->
               CASE b = "Nodal 1" -> RDec(1401, 10000)
                 [] b = "Nodal 2" -> RDec(1341, 10000)
                 [] b = "Nodal 3" -> RDec(1415, 10000)
                 [] b = "Nodal 4" -> RDec(1221, 10000)
                 [] b = "Nodal 5" -> RDec(1181, 10000)]
       [] y = "2024/2025" ->
            [b \in NodalNames |->
               CASE b = "Nodal 1" -> RDec(900, 10000)
                 [] b = "Nodal 2" -> RDec(860, 10000)
                 [] b = "Nodal 3" -> RDec(820, 10000)
                 [] b = "Nodal 4" -> RDec(770, 10000)
                 [] b = "Nodal 5" -> RDec(750, 10000)]
       [] y = "2025/2026" ->
            [b \in NodalNames |->
               CASE b = "Nodal 1" -> Dec11(60, 4926, 8079)
                 [] b = "Nodal 2" -> Dec11(57, 8699, 2953)
                 [] b = "Nodal 3" -> Dec11(55, 401, 7311)
                 [] b = "Nodal 4" -> Dec11(52, 1310, 1496)
                 [] b = "Nodal 5" -> Dec11(50, 6496, 2726)]]

\* one row of pay_data; the rates are given in thousandths
PayRow(year, award, rpi, cpi, cpih) ==
  [year |-> year, pay_award |-> award,
   rpi |-> RDec(rpi, 1000), cpi |-> RDec(cpi, 1000), cpih |-> RDec(cpih, 1000)]

\* the table calculate_fpr_percentage builds at each call, before the overrides
BasePayData ==
  << PayRow("2008/2009", RDec(0, 1000), 0, 0, 0),
     PayRow("2009/2010", RDec(15, 1000), 53, 37, 27),
     PayRow("2010/2011", RDec(10, 1000), 52, 45, 38),
     PayRow("2011/2012", RDec(0, 1000), 35, 30, 28),
     PayRow("2012/2013", RDec(0, 1000), 29, 24, 22),
     PayRow("2013/2014", RDec(10, 1000), 25, 18, 17),
     PayRow("2014/2015", RDec(0, 1000), 9, -1, 3),
     PayRow("2015/2016", RDec(0, 1000), 13, 3, 7),
     PayRow("2016/2017", RDec(10, 1000), 35, 27, 26),
     PayRow("2017/2018", RDec(10, 1000), 34, 24, 22),
     PayRow("2018/2019", RDec(20, 1000), 30, 21, 20),
     PayRow("2019/2020", RDec(23, 1000), 15, 8, 9),
     PayRow("2020/2021", RDec(30, 1000), 29, 15, 16),
     PayRow("2021/2022", RDec(30, 1000), 111, 90, 78),
     PayRow("2022/2023", RDec(30, 1000), 114, 87, 78),
     PayRow("2023/2024", None, 33, 23, 30),
     PayRow("2024/2025", None, 45, 35, 41),
     PayRow("2025/2026", None, 45, 35, 41) >>

\* NODAL_SPECIFIC_PAY_AWARDS[year].get(nodal_point, default)
AwardGet(year, nodal_point, default) ==
  IF nodal_point \in DOMAIN NODAL_SPECIFIC_PAY_AWARDS[year]
    THEN NODAL_SPECIFIC_PAY_AWARDS[year][nodal_point]
    ELSE default

\* the pay award written into a row of the three overridden years
OverrideAward(year, nodal_point) ==
  IF nodal_point # "None"
    THEN CASE year = "2023/2024" -> AwardGet(year, nodal_point, RDec(371, 10000))
           [] year = "2024/2025" -> AwardGet(year, nodal_point, RDec(820, 10000))
           [] year = "2025/2026" -> AwardGet(year, nodal_point, RDec(560, 10000))
    ELSE CASE year = "2023/2024" -> RDec(400, 10000)
           [] year = "2024/2025" -> RDec(820, 10000)
           [] year = "2025/2026" -> RDec(560, 10000)

\* pay_data after the loops of lines 137-153
OverriddenPayData(nodal_point) ==
  [i \in 1..Len(BasePayData) |->
     IF BasePayData[i].year \in {"2023/2024", "2024/2025", "2025/2026"}
       THEN [BasePayData[i] EXCEPT
               !.pay_award = OverrideAward(BasePayData[i].year, nodal_point)]
       ELSE BasePayData[i]]

\* next((i for i, data in enumerate(table) if data["year"] == year), default),
\* as a 0-based index
RECURSIVE FirstIndexFrom(_, _, _, _)
FirstIndexFrom(table, year, i, default) ==
  IF i > Len(table) THEN default
  ELSE IF table[i].year = year THEN i - 1
  ELSE FirstIndexFrom(table, year, i + 1, default)

IndexOfYear(table, year, default) == FirstIndexFrom(table, year, 1, default)

InflationKey(inflation_type) ==
  IF inflation_type = "RPI" THEN "rpi"
  ELSE IF inflation_type = "CPI" THEN "cpi"
  ELSE "cpih"

\* data[inflation_key]
RateOf(data, inflation_key) ==
  CASE inflation_key = "rpi" -> data.rpi
    [] inflation_key = "cpi" -> data.cpi
    [] inflation_key = "cpih" -> data.cpih

(***************************************************************************)
(* Tax, National Insurance and pension functions (lines 64-104).           *)
(***************************************************************************)
calculate_pension_contribution(basic_pay) == RMul(basic_pay, RDec(237, 1000))

\* a variant of calculate_income_tax whose 40% band forgets the 20% band below
calculate_income_taxAlt(income) ==
  IF RLe(income, RInt(12570)) THEN RZero
  ELSE IF RLe(income, RInt(50270))
    THEN RMul(RSub(income, RInt(12570)), RDec(2, 10))
  ELSE RMul(RSub(income, RInt(50270)), RDec(4, 10))

calculate_income_tax(income) ==
  IF RLe(income, RInt(12570)) THEN RZero
  ELSE IF RLe(income, RInt(50270))
    THEN RMul(RSub(income, RInt(12570)), RDec(2, 10))
  ELSE IF RLe(income, RInt(125140))
    THEN RAdd(RMul(RInt(50270 - 12570), RDec(2, 10)),
              RMul(RSub(income, RInt(50270)), RDec(4, 10)))
  ELSE RAdd(RAdd(RMul(RInt(50270 - 12570), RDec(2, 10)),
                 RMul(RInt(125140 - 50270), RDec(4, 10))),
            RMul(RSub(income, RInt(125140)), RDec(45, 100)))

\* a variant of calculate_national_insurance whose upper band forgets the band
\* below
calculate_national_insuranceAlt(income) ==
  IF RLe(RDiv(income, RInt(52)), RInt(242)) THEN RZero
  ELSE IF RLe(RDiv(income, RInt(52)), RInt(967))
    THEN RMul(RMul(RSub(RDiv(income, RInt(52)), RInt(242)), RDec(8, 100)),
              RInt(52))
  ELSE RMul(RMul(RSub(RDiv(income, RInt(52)), RInt(967)), RDec(2, 100)),
            RInt(52))

calculate_national_insurance(income) ==
  LET weekly_income == RDiv(income, RInt(52))
  IN  IF RLe(weekly_income, RInt(242)) THEN RZero
      ELSE IF RLe(weekly_income, RInt(967))
        THEN RMul(RMul(RSub(weekly_income, RInt(242)), RDec(8, 100)), RInt(52))
      ELSE RAdd(RMul(RMul(RInt(967 - 242), RDec(8, 100)), RInt(52)),
                RMul(RMul(RSub(weekly_income, RInt(967)), RDec(2, 100)), RInt(52)))

\* a variant of calculate_employer_ni with a rate of its own, 0.15, for the
\* weekly income above 967
calculate_employer_niTop(income) ==
  LET weekly_income == RDiv(income, RInt(52))
      rate == RDec(138, 1000)
  IN  IF RLe(weekly_income, RInt(175)) THEN RZero
      ELSE IF RLe(weekly_income, RInt(967))
        THEN RMul(RMul(RSub(weekly_income, RInt(175)), rate), RInt(52))
      ELSE RAdd(RMul(RMul(RInt(967 - 175), rate), RInt(52)),
                RMul(RMul(RSub(weekly_income, RInt(967)), RDec(150, 1000)),
                     RInt(52)))

\* a variant of calculate_employer_ni whose upper bands forget the band below
calculate_employer_niAlt(income) ==
  IF RLe(RDiv(income, RInt(52)), RInt(175)) THEN RZero
  ELSE IF RLe(RDiv(income, RInt(52)), RInt(481))
    THEN RMul(RMul(RSub(RDiv(income, RInt(52)), RInt(175)), RDec(138, 1000)),
              RInt(52))
  ELSE RMul(RMul(RSub(RDiv(income, RInt(52)), RInt(481)), RDec(138, 1000)),
            RInt(52))

calculate_employer_ni(income) ==
  LET weekly_income == RDiv(income, RInt(52))
      rate == RDec(138, 1000)
  IN  IF RLe(weekly_income, RInt(175)) THEN RZero
      ELSE IF RLe(weekly_income, RInt(481))
        THEN RMul(RMul(RSub(weekly_income, RInt(175)), rate), RInt(52))
      ELSE IF RLe(weekly_income, RInt(967))
        THEN RAdd(RMul(RMul(RInt(481 - 175), rate), RInt(52)),
                  RMul(RMul(RSub(weekly_income, RInt(481)), rate), RInt(52)))
      ELSE RAdd(RAdd(RMul(RMul(RInt(481 - 175), rate), RInt(52)),
                     RMul(RMul(RInt(967 - 481), rate), RInt(52))),
                RMul(RMul(RSub(weekly_income, RInt(967)), rate), RInt(52)))

(***************************************************************************)
(* Helpers of calculate_nodal_point_results (lines 616-745).               *)
(***************************************************************************)
\* a variant of calculate_total_pay that pays out-of-hours work at the plain rate
calculate_total_payAlt(basic_pay, additional_hours, out_of_hours) ==
  [basic |-> basic_pay,
   additional |-> RMul(RDiv(basic_pay, RInt(40)), RInt(additional_hours)),
   ooh |-> RMul(RDiv(basic_pay, RInt(40)), RInt(out_of_hours)),
   total |-> RAdd(RAdd(basic_pay,
                       RMul(RDiv(basic_pay, RInt(40)), RInt(additional_hours))),
                  RMul(RDiv(basic_pay, RInt(40)), RInt(out_of_hours)))]

\* lines 618-621
calculate_total_pay(basic_pay, additional_hours, out_of_hours) ==
  LET additional_pay == RMul(RDiv(basic_pay, RInt(40)), RInt(additional_hours))
      ooh_pay == RMul(RMul(RDiv(basic_pay, RInt(40)), RInt(out_of_hours)),
                      RDec(37, 100))
  IN  [basic |-> basic_pay, additional |-> additional_pay, ooh |-> ooh_pay,
       total |-> RAdd(RAdd(basic_pay, additional_pay), ooh_pay)]

\* lines 623-629
calculate_tax_and_ni(total_pay, basic_pay) ==
  LET pension_contribution == calculate_pension_contribution(basic_pay)
      taxable_pay == RSub(total_pay, pension_contribution)
  IN  [income_tax |-> calculate_income_tax(taxable_pay),
       ni |-> calculate_national_insurance(taxable_pay),
       pension |-> pension_contribution,
       employer_ni |-> calculate_employer_ni(total_pay)]

\* lines 653-654: the year-0 pay rise and pay
Year0TotalPayRise(base_pay, year_input, name) ==
  LET consolidated_increase == year_input.pound_increases[name]
      total_percentage_from_input == year_input.nodal_percentages[name]
      consolidated_percentage == RDiv(consolidated_increase, RInt(base_pay))
  IN  RAdd(total_percentage_from_input, consolidated_percentage)

Year0NominalPay(base_pay, year_input, name) ==
  RMul(RInt(base_pay), RAdd(ROne, Year0TotalPayRise(base_pay, year_input, name)))

\* lines 672-675: the pay rise and pay of a later year
YearNTotalPayRise(previous, year_input, name) ==
  LET consolidated_increase == year_input.pound_increases[name]
      percentage_increase == RAdd(year_input.nodal_percentages[name],
                                  year_input.inflation)
  IN  RAdd(percentage_increase, RDiv(consolidated_increase, previous))

\* a variant of YearNNominalPay that applies the percentage to the consolidated
\* increase as well
YearNNominalPayAlt(previous, year_input, name) ==
  RMul(RAdd(previous, year_input.pound_increases[name]),
       RAdd(ROne, RAdd(year_input.nodal_percentages[name], year_input.inflation)))

YearNNominalPay(previous, year_input, name) ==
  LET consolidated_increase == year_input.pound_increases[name]
      percentage_increase == RAdd(year_input.nodal_percentages[name],
                                  year_input.inflation)
  IN  RAdd(RMul(previous, RAdd(ROne, percentage_increase)), consolidated_increase)

\* a variant of BasicPayCost that takes the change of total pay
BasicPayCostAlt(current, reference, doctor_count) ==
  RMul(RSub(current.total, reference.total), RInt(doctor_count))

\* lines 664 and 685
BasicPayCost(current, reference, doctor_count) ==
  RMul(RSub(current.basic, reference.basic), RInt(doctor_count))

\* a variant of TotalCost that compares total pay with the reference basic pay
TotalCostAlt(current, reference, pension_cost, employer_ni_cost, doctor_count) ==
  RAdd(RMul(RSub(current.total, reference.basic), RInt(doctor_count)),
       RAdd(pension_cost, employer_ni_cost))

\* lines 667 and 688
TotalCost(current, reference, pension_cost, employer_ni_cost, doctor_count) ==
  RAdd(RAdd(RMul(RSub(current.total, reference.total), RInt(doctor_count)),
            pension_cost),
       employer_ni_cost)

\* lines 664-668 and 685-689, 691: the costs of moving a nodal point from the
\* reference pay to the current pay, given the taxes of both
CostsOfChange(current, current_tax, reference, reference_tax, doctor_count) ==
  LET pension_cost == RMul(RSub(current_tax.pension, reference_tax.pension),
                           RInt(doctor_count))
      employer_ni_cost == RMul(RSub(current_tax.employer_ni, reference_tax.employer_ni),
                               RInt(doctor_count))
      total_cost == TotalCost(current, reference, pension_cost, employer_ni_cost,
                              doctor_count)
      tax_recouped == RMul(RSub(RAdd(current_tax.income_tax, current_tax.ni),
                                RAdd(reference_tax.income_tax, reference_tax.ni)),
                           RInt(doctor_count))
  IN  [basic_pay_cost |-> BasicPayCost(current, reference, doctor_count),
       pension_cost |-> pension_cost,
       employer_ni_cost |-> employer_ni_cost,
       total_cost |-> total_cost,
       tax_recouped |-> tax_recouped,
       net_cost |-> RSub(total_cost, tax_recouped)]

\* lines 658, 662 and 679, 683: the taxes of the current and the reference pay
CostsBetween(current, reference, doctor_count) ==
  CostsOfChange(current, calculate_tax_and_ni(current.total, current.basic),
                reference, calculate_tax_and_ni(reference.total, reference.basic),
                doctor_count)

\* lines 657, 661 and 678, 682: the total pay at new_nominal_pay and at the
\* reference pay
YearCosts(new_nominal_pay, reference_pay, doctor_count, additional_hours, out_of_hours) ==
  CostsBetween(calculate_total_pay(new_nominal_pay, additional_hours, out_of_hours),
               calculate_total_pay(reference_pay, additional_hours, out_of_hours),
               doctor_count)

\* lines 706-710: the nominal rise needed to reach the target at this inflation
AdjustedFprTarget(fpr_target, inflation) ==
  RSub(RMul(RAdd(ROne, RDiv(fpr_target, RInt(100))), RAdd(ROne, inflation)), ROne)

\* a variant of CurrentPayCut that sets the nominal rise given, not deflated,
\* against the target
CurrentPayCutAlt(fpr_target, new_nominal_pay, base_pay, inflation) ==
  IF RGt(AdjustedFprTarget(fpr_target, inflation), RZero)
    THEN RSub(RDiv(fpr_target, RInt(100)),
              RSub(RDiv(new_nominal_pay, RInt(base_pay)), ROne))
    ELSE RZero

\* lines 706-721
CurrentPayCut(fpr_target, new_nominal_pay, base_pay, inflation) ==
  LET fpr_target_decimal == RDiv(fpr_target, RInt(100))
      total_nominal_rise_given == RSub(RDiv(new_nominal_pay, RInt(base_pay)), ROne)
  IN  IF RGt(AdjustedFprTarget(fpr_target, inflation), RZero)
        THEN LET real_terms_achieved ==
                   RSub(RDiv(RAdd(ROne, total_nominal_rise_given),
                             RAdd(ROne, inflation)), ROne)
                 real_terms_needed == fpr_target_decimal
             IN  RSub(real_terms_needed, real_terms_achieved)
        ELSE RZero

\* a variant of CurrentProgress that measures against the unadjusted target
CurrentProgressAlt(fpr_target, new_nominal_pay, base_pay, inflation) ==
  LET total_nominal_rise_given == RSub(RDiv(new_nominal_pay, RInt(base_pay)), ROne)
  IN  IF RGt(fpr_target, RZero)
        THEN RMul(RDiv(total_nominal_rise_given, RDiv(fpr_target, RInt(100))),
                  RInt(100))
        ELSE RInt(100)

\* lines 729-740
CurrentProgress(fpr_target, new_nominal_pay, base_pay, inflation) ==
  LET total_nominal_rise_given == RSub(RDiv(new_nominal_pay, RInt(base_pay)), ROne)
      adjusted_fpr_target == AdjustedFprTarget(fpr_target, inflation)
  IN  IF RGt(adjusted_fpr_target, RZero)
        THEN RMul(RDiv(total_nominal_rise_given, adjusted_fpr_target), RInt(100))
        ELSE RInt(100)

\* sum(list)
RECURSIVE RSum(_)
RSum(list) == IF list = <<>> THEN RZero ELSE RAdd(Head(list), RSum(Tail(list)))

\* the list without its first element, list[1:]
Rest(list) == Tail(list)

\* a variant of AddCosts that overwrites instead of adding
AddCostsAlt(costs, yearly) ==
  [j \in 1..Len(costs) |-> IF j <= Len(yearly) THEN yearly[j] ELSE costs[j]]

\* lines 611-612: the band's yearly costs are added into cumulative_costs
AddCosts(costs, yearly) ==
  [j \in 1..Len(costs) |-> IF j <= Len(yearly) THEN RAdd(costs[j], yearly[j])
                                               ELSE costs[j]]

(***************************************************************************)
(* State.                                                                  *)
(***************************************************************************)
VARIABLES
  \* calculate_fpr_percentage: position, arguments, locals and result
  fpr_pc, start_year, end_year, inflation_type, nodal_point, fpr_year_inputs,
  pay_data, start_index, end_index, idx, inflation_rate, cumulative_effect,
  fpr_percentage, fpr_raised,
  \* the history of the calls of calculate_fpr_percentage: "Nodal 1" once a
  \* call that named Nodal 1 has returned, "None" before
  fpr_earlier,
  \* calculate_results: position, arguments, loop indices and results
  eng_pc, fpr_percentages, doctor_counts, year_inputs, additional_hours,
  out_of_hours, band, year, results, total_nominal_cost, total_real_cost,
  cumulative_costs,
  \* calculate_nodal_point_results: the tracking lists of the band in progress
  pay_progression_nominal, pay_progression_real, real_terms_pay_cuts,
  fpr_progress, net_change_in_pay, yearly_basic_costs, yearly_total_costs,
  yearly_tax_recouped, yearly_net_costs, yearly_employer_ni_costs,
  yearly_pension_costs,
  \* a call of one of the tax functions: the function, its argument, the value
  \* returned and the exception raised
  tax_fn, tax_income, tax_value, tax_raised,
  \* a call of calculate_fpr_detailed of src/pay_erosion_calculator.py: its
  \* position, its arguments, the rows it wrote to the output file and the
  \* dict it returned
  det_pc, det_nodal_point, det_inflation_type, det_start_year, det_end_year,
  det_output, det_result,
  \* the sidebar: st.session_state, the widget whose change was handled last,
  \* the exception its callback raised and whether the warning of line 359 shows
  session_state, ui_event, ui_raised, warning

tax_vars == << tax_fn, tax_income, tax_value, tax_raised >>

det_vars ==
  << det_pc, det_nodal_point, det_inflation_type, det_start_year, det_end_year,
     det_output, det_result >>

ui_vars == << session_state, ui_event, ui_raised, warning >>

fpr_vars ==
  << fpr_pc, start_year, end_year, inflation_type, nodal_point, fpr_year_inputs,
     pay_data, start_index, end_index, idx, inflation_rate, cumulative_effect,
     fpr_percentage, fpr_raised, fpr_earlier >>

(***************************************************************************)
(* Arguments the FPR calculation is called with.  The sidebar offers the   *)
(* years of AVAILABLE_YEARS; the function itself takes any label, in any   *)
(* order, so a label outside the table is among the arguments.             *)
(***************************************************************************)
FprYears ==
  { "2008/2009", "2009/2010", "2014/2015", "2022/2023", "2023/2024",
    "2024/2025", "2025/2026", "2026/2027" }

FprInflationTypes == {"RPI", "CPI", "CPIH"}

\* "None" is the absent nodal_point; "Nodal 9" has no entry in the overrides
FprNodalPoints == {"None", "Nodal 1", "Nodal 4", "Nodal 9"}

\* year_inputs as update_fpr_targets passes it: <<>> is None, otherwise the
\* first entry carries the projected 2025/2026 rates
FprYearInputs ==
  { <<>>,
    << [rpi |-> RDec(70, 1000), cpi |-> RDec(60, 1000), cpih |-> RDec(50, 1000),
        inflation |-> RDec(70, 1000)] >> }

FprInit ==
  /\ fpr_pc = "idle"
  /\ start_year = "2008/2009"
  /\ end_year = "2025/2026"
  /\ inflation_type = "RPI"
  /\ nodal_point = "None"
  /\ fpr_year_inputs = <<>>
  /\ pay_data = BasePayData
  /\ start_index = 0
  /\ end_index = 0
  /\ idx = 0
  /\ inflation_rate = None
  /\ cumulative_effect = ROne
  /\ fpr_percentage = None
  /\ fpr_raised = "none"
  /\ fpr_earlier = "None"

(***************************************************************************)
(* calculate_fpr_percentage(start_year, end_year, inflation_type,          *)
(*                          nodal_point, year_inputs)                      *)
(***************************************************************************)
\* a variant of FprCall with one table for all calls: a call that names no
\* band leaves the awards an earlier call for Nodal 1 wrote
FprCallAlt ==
  /\ fpr_pc = "idle"
  /\ \E sy \in FprYears, ey \in FprYears, it \in FprInflationTypes,
        np \in FprNodalPoints, yi \in FprYearInputs :
       /\ start_year' = sy
       /\ end_year' = ey
       /\ inflation_type' = it
       /\ nodal_point' = np
       /\ fpr_year_inputs' = yi
       /\ pay_data' = OverriddenPayData(IF np = "None" THEN fpr_earlier
                                          ELSE np)
       /\ start_index' = IndexOfYear(OverriddenPayData(np), sy, 0)
       /\ end_index' = IndexOfYear(OverriddenPayData(np), ey,
                                   Len(OverriddenPayData(np)))
       /\ idx' = IndexOfYear(OverriddenPayData(np), sy, 0)
  /\ cumulative_effect' = ROne
  /\ inflation_rate' = None
  /\ fpr_percentage' = None
  /\ fpr_raised' = "none"
  /\ fpr_pc' = "loop"
  /\ UNCHANGED fpr_earlier

\* lines 113-164: the table is built and overridden, the window is located
FprCall ==
  /\ fpr_pc = "idle"
  /\ \E sy \in FprYears, ey \in FprYears, it \in FprInflationTypes,
        np \in FprNodalPoints, yi \in FprYearInputs :
       /\ start_year' = sy
       /\ end_year' = ey
       /\ inflation_type' = it
       /\ nodal_point' = np
       /\ fpr_year_inputs' = yi
       /\ pay_data' = OverriddenPayData(np)
       /\ start_index' = IndexOfYear(OverriddenPayData(np), sy, 0)
       /\ end_index' = IndexOfYear(OverriddenPayData(np), ey,
                                   Len(OverriddenPayData(np)))
       /\ idx' = IndexOfYear(OverriddenPayData(np), sy, 0)
  /\ cumulative_effect' = ROne
  /\ inflation_rate' = None
  /\ fpr_percentage' = None
  /\ fpr_raised' = "none"
  /\ fpr_pc' = "loop"
  /\ UNCHANGED fpr_earlier

\* lines 167-177: the inflation rate read for a row
RowInflation(data, inflation_key, inputs) ==
  IF IsNone(RateOf(data, inflation_key)) /\ data.year = "2025/2026"
     /\ inputs # <<>>
    THEN RateOf(inputs[1], inflation_key)
    ELSE RateOf(data, inflation_key)

\* line 179: a row is skipped when its inflation is 0.0 or None
SkipsRow(rate) == IsNone(rate) \/ rate.s = 0

\* a variant of ApplyRow that adds the real terms change
ApplyRowAlt(effect, pay_award, rate) ==
  RAdd(effect, RSub(RDiv(RAdd(ROne, pay_award), RAdd(ROne, rate)), ROne))

\* lines 181-182
ApplyRow(effect, pay_award, rate) ==
  LET real_terms_change == RSub(RDiv(RAdd(ROne, pay_award), RAdd(ROne, rate)), ROne)
  IN  RMul(effect, RAdd(ROne, real_terms_change))

\* one iteration of the loop of line 166 that ends at `continue`
FprSkipRow ==
  /\ fpr_pc = "loop"
  /\ idx < end_index
  /\ LET rate == RowInflation(pay_data[idx + 1], InflationKey(inflation_type),
                              fpr_year_inputs)
     IN  /\ SkipsRow(rate)
         /\ inflation_rate' = rate
  /\ idx' = idx + 1
  /\ UNCHANGED << fpr_pc, start_year, end_year, inflation_type, nodal_point,
                  fpr_year_inputs, pay_data, start_index, end_index,
                  cumulative_effect, fpr_percentage, fpr_raised, fpr_earlier >>

\* one iteration of the loop of line 166 that reaches lines 181-182
FprApplyRow ==
  /\ fpr_pc = "loop"
  /\ idx < end_index
  /\ LET data == pay_data[idx + 1]
         rate == RowInflation(data, InflationKey(inflation_type), fpr_year_inputs)
     IN  /\ ~SkipsRow(rate)
         /\ inflation_rate' = rate
         /\ IF IsNone(data.pay_award)
              THEN /\ fpr_raised' = "TypeError"
                   /\ fpr_pc' = "done"
                   /\ UNCHANGED << cumulative_effect, idx >>
            ELSE IF RAdd(ROne, rate).s = 0
              THEN /\ fpr_raised' = "ZeroDivisionError"
                   /\ fpr_pc' = "done"
                   /\ UNCHANGED << cumulative_effect, idx >>
            ELSE /\ cumulative_effect' = ApplyRow(cumulative_effect, data.pay_award, rate)
                 /\ idx' = idx + 1
                 /\ UNCHANGED << fpr_raised, fpr_pc >>
  /\ UNCHANGED << start_year, end_year, inflation_type, nodal_point,
                  fpr_year_inputs, pay_data, start_index, end_index,
                  fpr_percentage, fpr_earlier >>

\* a variant of FprFormula: the erosion (1 - effect) * 100 of src/testing.py
FprFormulaAlt(effect) == RMul(RSub(ROne, effect), RInt(100))

\* line 184
FprFormula(effect) == RMul(RSub(RDiv(ROne, effect), ROne), RInt(100))

\* lines 184-185: the loop is over, the percentage is returned
FprReturn ==
  /\ fpr_pc = "loop"
  /\ idx >= end_index
  /\ IF cumulative_effect.s = 0
       THEN /\ fpr_raised' = "ZeroDivisionError"
            /\ UNCHANGED fpr_percentage
       ELSE /\ fpr_percentage' = FprFormula(cumulative_effect)
            /\ UNCHANGED fpr_raised
  /\ fpr_pc' = "done"
  /\ UNCHANGED << start_year, end_year, inflation_type, nodal_point,
                  fpr_year_inputs, pay_data, start_index, end_index, idx,
                  inflation_rate, cumulative_effect, fpr_earlier >>

\* the caller takes the result; the locals of the call are gone
FprDone ==
  /\ fpr_pc = "done"
  /\ fpr_pc' = "idle"
  /\ start_year' = "2008/2009"
  /\ end_year' = "2025/2026"
  /\ inflation_type' = "RPI"
  /\ nodal_point' = "None"
  /\ fpr_year_inputs' = <<>>
  /\ pay_data' = BasePayData
  /\ start_index' = 0
  /\ end_index' = 0
  /\ idx' = 0
  /\ inflation_rate' = None
  /\ cumulative_effect' = ROne
  /\ fpr_percentage' = None
  /\ fpr_raised' = "none"
  /\ fpr_earlier' = IF nodal_point = "Nodal 1" THEN "Nodal 1" ELSE fpr_earlier

(***************************************************************************)
(* calculate_results and calculate_nodal_point_results (lines 599-771).    *)
(***************************************************************************)
eng_args == << fpr_percentages, doctor_counts, year_inputs, additional_hours,
               out_of_hours >>

eng_lists ==
  << pay_progression_nominal, pay_progression_real, real_terms_pay_cuts,
     fpr_progress, net_change_in_pay, yearly_basic_costs, yearly_total_costs,
     yearly_tax_recouped, yearly_net_costs, yearly_employer_ni_costs,
     yearly_pension_costs >>

eng_totals == << results, total_nominal_cost, total_real_cost, cumulative_costs >>

eng_vars == << eng_pc, eng_args, band, year, eng_totals, eng_lists >>

\* the most years a run simulates, year 0 included
MaxYears == 2

\* one entry of year_inputs: the same rise for every nodal point but Nodal 1
YearInput(pct1, pct, pound1, pound, inflation) ==
  [nodal_percentages |-> [b \in NodalNames |-> IF b = "Nodal 1" THEN pct1 ELSE pct],
   pound_increases |-> [b \in NodalNames |-> IF b = "Nodal 1" THEN pound1 ELSE pound],
   inflation |-> inflation]

\* the entries a run draws its year_inputs from: nothing at all; 10% and no
\* inflation; at 10% inflation, 21% for Nodal 1 and 5% with a consolidated 1000
\* for the others
YearInputChoices ==
  { YearInput(RZero, RZero, RZero, RZero, RZero),
    YearInput(RDec(10, 100), RDec(10, 100), RZero, RZero, RZero),
    YearInput(RDec(21, 100), RDec(5, 100), RZero, RInt(1000), RDec(10, 100)) }

RECURSIVE SeqsOf(_, _)
SeqsOf(S, n) ==
  IF n = 0 THEN {<<>>}
  ELSE {Append(q, e) : q \in SeqsOf(S, n - 1), e \in S}

YearInputsChoices == UNION {SeqsOf(YearInputChoices, n) : n \in 1..MaxYears}

\* FPR targets per nodal point, in percent
FprPercentagesChoices ==
  { [b \in NodalNames |->
       CASE b = "Nodal 1" -> RInt(10)
         [] b = "Nodal 2" -> RZero
         [] b = "Nodal 3" -> RDec(255, 10)
         [] b = "Nodal 4" -> RInt(-5)
         [] b = "Nodal 5" -> RInt(10)],
    [b \in NodalNames |-> IF b = "Nodal 5" THEN RZero ELSE RInt(10)] }

\* the sidebar's default head counts, and a small staff with an empty band
DoctorCountsChoices ==
  { [b \in NodalNames |->
       CASE b = "Nodal 1" -> 8000
         [] b = "Nodal 2" -> 6000
         [] b = "Nodal 3" -> 20000
         [] b = "Nodal 4" -> 25000
         [] b = "Nodal 5" -> 6000],
    [b \in NodalNames |->
       CASE b = "Nodal 1" -> 1
         [] b = "Nodal 2" -> 0
         [] b = "Nodal 3" -> 3
         [] b = "Nodal 4" -> 2
         [] b = "Nodal 5" -> 1] }

\* (additional_hours, out_of_hours)
HoursChoices == { <<0, 0>>, <<8, 8>> }

\* a variant of EnterBand that keeps the pay progression of the nodal point
\* before
EnterBandAlt(b, targets) ==
  /\ pay_progression_nominal' =
       IF b = 1 THEN << RInt(NODAL_POINTS[b].base_pay) >> ELSE pay_progression_nominal
  /\ pay_progression_real' = << RInt(NODAL_POINTS[b].base_pay) >>
  /\ real_terms_pay_cuts' =
       << RDiv(RNeg(targets[NODAL_POINTS[b].name]), RInt(100)) >>
  /\ fpr_progress' = << RZero >>
  /\ net_change_in_pay' = << RZero >>
  /\ yearly_basic_costs' = <<>>
  /\ yearly_total_costs' = <<>>
  /\ yearly_tax_recouped' = <<>>
  /\ yearly_net_costs' = <<>>
  /\ yearly_employer_ni_costs' = <<>>
  /\ yearly_pension_costs' = <<>>
  /\ band' = b
  /\ year' = 0

\* lines 632-642: the tracking lists at the start of a nodal point
EnterBand(b, targets) ==
  /\ pay_progression_nominal' = << RInt(NODAL_POINTS[b].base_pay) >>
  /\ pay_progression_real' = << RInt(NODAL_POINTS[b].base_pay) >>
  /\ real_terms_pay_cuts' =
       << RDiv(RNeg(targets[NODAL_POINTS[b].name]), RInt(100)) >>
  /\ fpr_progress' = << RZero >>
  /\ net_change_in_pay' = << RZero >>
  /\ yearly_basic_costs' = <<>>
  /\ yearly_total_costs' = <<>>
  /\ yearly_tax_recouped' = <<>>
  /\ yearly_net_costs' = <<>>
  /\ yearly_employer_ni_costs' = <<>>
  /\ yearly_pension_costs' = <<>>
  /\ band' = b
  /\ year' = 0

EngInit ==
  /\ eng_pc = "idle"
  /\ fpr_percentages = [b \in NodalNames |-> RZero]
  /\ doctor_counts = [b \in NodalNames |-> 0]
  /\ year_inputs = <<>>
  /\ additional_hours = 0
  /\ out_of_hours = 0
  /\ band = 0
  /\ year = 0
  /\ results = <<>>
  /\ total_nominal_cost = RZero
  /\ total_real_cost = RZero
  /\ cumulative_costs = <<>>
  /\ pay_progression_nominal = <<>>
  /\ pay_progression_real = <<>>
  /\ real_terms_pay_cuts = <<>>
  /\ fpr_progress = <<>>
  /\ net_change_in_pay = <<>>
  /\ yearly_basic_costs = <<>>
  /\ yearly_total_costs = <<>>
  /\ yearly_tax_recouped = <<>>
  /\ yearly_net_costs = <<>>
  /\ yearly_employer_ni_costs = <<>>
  /\ yearly_pension_costs = <<>>

\* lines 599-606: calculate_results is called and enters the first nodal point
CalcResultsCall ==
  /\ eng_pc = "idle"
  /\ \E targets \in FprPercentagesChoices, counts \in DoctorCountsChoices,
        inputs \in YearInputsChoices, hours \in HoursChoices :
       /\ fpr_percentages' = targets
       /\ doctor_counts' = counts
       /\ year_inputs' = inputs
       /\ additional_hours' = hours[1]
       /\ out_of_hours' = hours[2]
       /\ cumulative_costs' = [j \in 1..(Len(inputs) + 1) |-> RZero]
       /\ EnterBand(1, targets)
  /\ results' = <<>>
  /\ total_nominal_cost' = RZero
  /\ total_real_cost' = RZero
  /\ eng_pc' = "years"
  /\ UNCHANGED << fpr_vars, tax_vars, det_vars, ui_vars >>

\* lines 691-745: the year's values are appended to the tracking lists
RecordYear(new_nominal_pay, total_pay_rise, costs) ==
  LET name == NODAL_POINTS[band].name
      base_pay == NODAL_POINTS[band].base_pay
      inflation == year_inputs[year + 1].inflation
  IN  /\ yearly_basic_costs' = Append(yearly_basic_costs, costs.basic_pay_cost)
      /\ yearly_total_costs' = Append(yearly_total_costs, costs.total_cost)
      /\ yearly_tax_recouped' = Append(yearly_tax_recouped, costs.tax_recouped)
      /\ yearly_net_costs' = Append(yearly_net_costs, costs.net_cost)
      /\ yearly_employer_ni_costs' =
           Append(yearly_employer_ni_costs, costs.employer_ni_cost)
      /\ yearly_pension_costs' = Append(yearly_pension_costs, costs.pension_cost)
      /\ pay_progression_nominal' = Append(pay_progression_nominal, new_nominal_pay)
      /\ pay_progression_real' =
           Append(pay_progression_real, RDiv(new_nominal_pay, RAdd(ROne, inflation)))
      /\ real_terms_pay_cuts' =
           Append(real_terms_pay_cuts,
                  CurrentPayCut(fpr_percentages[name], new_nominal_pay, base_pay,
                                inflation))
      /\ fpr_progress' =
           Append(fpr_progress,
                  CurrentProgress(fpr_percentages[name], new_nominal_pay, base_pay,
                                  inflation))
      /\ net_change_in_pay' = Append(net_change_in_pay, RMul(total_pay_rise, RInt(100)))

\* lines 644-668, 691-745: the iteration for year 0 (2025/2026)
Year0Step ==
  /\ eng_pc = "years"
  /\ year = 0
  /\ year < Len(year_inputs)
  /\ LET name == NODAL_POINTS[band].name
         base_pay == NODAL_POINTS[band].base_pay
         new_nominal_pay == Year0NominalPay(base_pay, year_inputs[1], name)
     IN  RecordYear(new_nominal_pay,
                    Year0TotalPayRise(base_pay, year_inputs[1], name),
                    YearCosts(new_nominal_pay, RInt(base_pay), doctor_counts[name],
                              additional_hours, out_of_hours))
  /\ year' = year + 1
  /\ UNCHANGED << eng_pc, eng_args, band, eng_totals, fpr_vars, tax_vars, det_vars, ui_vars >>

\* lines 644, 670-689, 691-745: the iteration for a later year
YearNStep ==
  /\ eng_pc = "years"
  /\ year >= 1
  /\ year < Len(year_inputs)
  /\ LET name == NODAL_POINTS[band].name
         previous == pay_progression_nominal[Len(pay_progression_nominal)]
         new_nominal_pay == YearNNominalPay(previous, year_inputs[year + 1], name)
     IN  RecordYear(new_nominal_pay,
                    YearNTotalPayRise(previous, year_inputs[year + 1], name),
                    YearCosts(new_nominal_pay, previous, doctor_counts[name],
                              additional_hours, out_of_hours))
  /\ year' = year + 1
  /\ UNCHANGED << eng_pc, eng_args, band, eng_totals, fpr_vars, tax_vars, det_vars, ui_vars >>

\* lines 747-771: what calculate_nodal_point_results returns
NodalPointResult ==
  LET name == NODAL_POINTS[band].name
      base_pay == RInt(NODAL_POINTS[band].base_pay)
      final_pay == pay_progression_nominal[Len(pay_progression_nominal)]
      final_real == pay_progression_real[Len(pay_progression_real)]
      last_inflation == year_inputs[Len(year_inputs)].inflation
  IN  [nodal_point |-> name,
       pay_2024_25 |-> base_pay,
       final_pay |-> final_pay,
       fpr_target |-> RMul(base_pay, RAdd(ROne, RDiv(fpr_percentages[name], RInt(100)))),
       fpr_required |-> fpr_percentages[name],
       nominal_total_increase |-> RSub(final_pay, base_pay),
       real_total_increase |-> RSub(final_real, base_pay),
       nominal_percent_increase |->
         RMul(RSub(RDiv(final_pay, base_pay), ROne), RInt(100)),
       real_percent_increase |->
         RMul(RSub(RDiv(final_real, base_pay), ROne), RInt(100)),
       real_terms_pay_cuts |-> Rest(real_terms_pay_cuts),
       fpr_progress |-> Rest(fpr_progress),
       net_change_in_pay |-> Rest(net_change_in_pay),
       doctor_count |-> doctor_counts[name],
       total_nominal_cost |-> RSum(yearly_total_costs),
       total_real_cost |-> RDiv(RSum(yearly_total_costs), RAdd(ROne, last_inflation)),
       pay_progression_nominal |-> Rest(pay_progression_nominal),
       pay_progression_real |-> Rest(pay_progression_real),
       yearly_basic_costs |-> yearly_basic_costs,
       yearly_total_costs |-> yearly_total_costs,
       yearly_tax_recouped |-> yearly_tax_recouped,
       yearly_net_costs |-> yearly_net_costs,
       yearly_employer_ni_costs |-> yearly_employer_ni_costs,
       yearly_pension_costs |-> yearly_pension_costs]

\* lines 607-612: the band's result is appended and added into the totals
Aggregate(result) ==
  /\ results' = Append(results, result)
  /\ total_nominal_cost' = RAdd(total_nominal_cost, result.total_nominal_cost)
  /\ total_real_cost' = RAdd(total_real_cost, result.total_real_cost)
  /\ cumulative_costs' = AddCosts(cumulative_costs, result.yearly_total_costs)

\* lines 747-771, 605-612: a nodal point returns and the next one is entered
NextBand ==
  /\ eng_pc = "years"
  /\ year >= Len(year_inputs)
  /\ band < Len(NODAL_POINTS)
  /\ Aggregate(NodalPointResult)
  /\ EnterBand(band + 1, fpr_percentages)
  /\ UNCHANGED << eng_pc, eng_args, fpr_vars, tax_vars, det_vars, ui_vars >>

\* lines 747-771, 607-614: the last nodal point returns, then calculate_results
CalcResultsReturn ==
  /\ eng_pc = "years"
  /\ year >= Len(year_inputs)
  /\ band = Len(NODAL_POINTS)
  /\ Aggregate(NodalPointResult)
  /\ eng_pc' = "done"
  /\ UNCHANGED << eng_args, band, year, eng_lists, fpr_vars, tax_vars, det_vars, ui_vars >>

(***************************************************************************)
(* Calls of the tax, National Insurance and pension functions (lines       *)
(* 64-104) with an income of the caller's choice.                          *)
(***************************************************************************)
\* the largest income of the grid, and the distance of its points, in pounds
MaxIncome == 200000

IncomeStep == 5000

\* the incomes at which a band of one of the functions begins: the income tax
\* thresholds and 52 times the weekly National Insurance thresholds
BandStarts == {12570, 50270, 125140, 52 * 175, 52 * 242, 52 * 481, 52 * 967}

\* incomes in pence: negative ones, a grid from 0 to MaxIncome, and every band
\* start with the penny and the pound on either side of it
IncomePence ==
  {-5000000, -100, -1}
  \cup {100 * k : k \in {g \in 0..MaxIncome : g % IncomeStep = 0}}
  \cup {100 * b + e : b \in BandStarts, e \in {-100, -1, 0, 1, 100}}

TaxIncomes == {RDec(k, 100) : k \in IncomePence}

TaxInit ==
  /\ tax_fn = "none"
  /\ tax_income = RZero
  /\ tax_value = None
  /\ tax_raised = "none"

\* lines 64-66: the call returns the value; the function raises nothing
CallPensionContribution ==
  /\ \E income \in TaxIncomes :
       /\ tax_income' = income
       /\ tax_value' = calculate_pension_contribution(income)
  /\ tax_fn' = "calculate_pension_contribution"
  /\ tax_raised' = "none"
  /\ UNCHANGED << fpr_vars, eng_vars, det_vars, ui_vars >>

\* lines 68-79: the call returns the value; the function raises nothing
CallIncomeTax ==
  /\ \E income \in TaxIncomes :
       /\ tax_income' = income
       /\ tax_value' = calculate_income_tax(income)
  /\ tax_fn' = "calculate_income_tax"
  /\ tax_raised' = "none"
  /\ UNCHANGED << fpr_vars, eng_vars, det_vars, ui_vars >>

\* lines 81-90: the call returns the value; the function raises nothing
CallNationalInsurance ==
  /\ \E income \in TaxIncomes :
       /\ tax_income' = income
       /\ tax_value' = calculate_national_insurance(income)
  /\ tax_fn' = "calculate_national_insurance"
  /\ tax_raised' = "none"
  /\ UNCHANGED << fpr_vars, eng_vars, det_vars, ui_vars >>

\* lines 92-104: the call returns the value; the function raises nothing
CallEmployerNi ==
  /\ \E income \in TaxIncomes :
       /\ tax_income' = income
       /\ tax_value' = calculate_employer_ni(income)
  /\ tax_fn' = "calculate_employer_ni"
  /\ tax_raised' = "none"
  /\ UNCHANGED << fpr_vars, eng_vars, det_vars, ui_vars >>

(***************************************************************************)
(* calculate_fpr_detailed of src/pay_erosion_calculator.py, the script     *)
(* that writes the year-by-year analysis.                                  *)
(***************************************************************************)
\* get_pay_data(): a new list at each call, seventeen rows up to 2024/2025
get_pay_data ==
  << PayRow("2008/2009", RDec(0, 1000), 0, 0, 0),
     PayRow("2009/2010", RDec(15, 1000), 53, 37, 27),
     PayRow("2010/2011", RDec(10, 1000), 52, 45, 38),
     PayRow("2011/2012", RDec(0, 1000), 35, 30, 28),
     PayRow("2012/2013", RDec(0, 1000), 29, 24, 22),
     PayRow("2013/2014", RDec(10, 1000), 25, 18, 17),
     PayRow("2014/2015", RDec(0, 1000), 9, -1, 3),
     PayRow("2015/2016", RDec(0, 1000), 13, 3, 7),
     PayRow("2016/2017", RDec(10, 1000), 35, 27, 26),
     PayRow("2017/2018", RDec(10, 1000), 34, 24, 22),
     PayRow("2018/2019", RDec(20, 1000), 30, 21, 20),
     PayRow("2019/2020", RDec(23, 1000), 15, 8, 9),
     PayRow("2020/2021", RDec(30, 1000), 29, 15, 16),
     PayRow("2021/2022", RDec(30, 1000), 111, 90, 78),
     PayRow("2022/2023", RDec(30, 1000), 114, 87, 78),
     PayRow("2023/2024", None, 33, 23, 30),
     PayRow("2024/2025", None, 45, 35, 41) >>

\* NODAL_SPECIFIC_PAY_AWARDS of the script: two years
CALCULATOR_PAY_AWARDS ==
  [y \in {"2023/2024", "2024/2025"} |->
     CASE y = "2023/2024" ->
            [b \in NodalNames |->
               CASE b = "Nodal 1" -> RDec(1401, 10000)
                 [] b = "Nodal 2" -> RDec(1341, 10000)
                 [] b = "Nodal 3" -> RDec(1415, 10000)
                 [] b = "Nodal 4" -> RDec(1221, 10000)
                 [] b = "Nodal 5" -> RDec(1181, 10000)]
       [] y = "2024/2025" ->
            [b \in NodalNames |->
               CASE b = "Nodal 1" -> RDec(900, 10000)
                 [] b = "Nodal 2" -> RDec(860, 10000)
                 [] b = "Nodal 3" -> RDec(820, 10000)
                 [] b = "Nodal 4" -> RDec(770, 10000)
                 [] b = "Nodal 5" -> RDec(750, 10000)]]

\* lines 71-75: the awards written into the two band-specific rows
DetailedPayData(name) ==
  [i \in 1..Len(get_pay_data) |->
     IF get_pay_data[i].year = "2023/2024"
       THEN [get_pay_data[i] EXCEPT
               !.pay_award = IF name \in DOMAIN CALCULATOR_PAY_AWARDS["2023/2024"]
                               THEN CALCULATOR_PAY_AWARDS["2023/2024"][name]
                               ELSE RDec(371, 10000)]
     ELSE IF get_pay_data[i].year = "2024/2025"
       THEN [get_pay_data[i] EXCEPT
               !.pay_award = IF name \in DOMAIN CALCULATOR_PAY_AWARDS["2024/2025"]
                               THEN CALCULATOR_PAY_AWARDS["2024/2025"][name]
                               ELSE RDec(820, 10000)]
     ELSE get_pay_data[i]]

\* a variant of DetailedEndIndex: the default is len(pay_data), as in main.py,
\* and the row of the end year is the last one read
DetailedEndIndexAlt(table, label) == IndexOfYear(table, label, Len(table)) - 1

\* line 79, as a 0-based index
DetailedEndIndex(table, label) == IndexOfYear(table, label, Len(table) - 1)

\* lines 105-106
DetailedApplyRow(effect, pay_award, rate) ==
  RMul(effect, RAdd(ROne, RSub(RDiv(RAdd(ROne, pay_award), RAdd(ROne, rate)), ROne)))

\* the loop of lines 90-108 from the row of 0-based index i on: acc carries
\* cumulative_effect and, for each row a line was written for, its year and
\* whether the line says SKIPPED
RECURSIVE DetailedLoop(_, _, _, _, _, _)
DetailedLoop(table, key, first_year, i, last, acc) ==
  IF i > last THEN acc
  ELSE IF table[i + 1].year = first_year
    THEN DetailedLoop(table, key, first_year, i + 1, last,
           [acc EXCEPT !.output = Append(@, [year |-> table[i + 1].year,
                                             line |-> "SKIPPED"])])
  ELSE IF SkipsRow(RateOf(table[i + 1], key))
    THEN DetailedLoop(table, key, first_year, i + 1, last, acc)
  ELSE DetailedLoop(table, key, first_year, i + 1, last,
         [effect |-> DetailedApplyRow(acc.effect, table[i + 1].pay_award,
                                      RateOf(table[i + 1], key)),
          output |-> Append(acc.output, [year |-> table[i + 1].year,
                                         line |-> "change"])])

\* line 111
DetailedErosion(effect) == RMul(RSub(ROne, effect), RInt(100))

\* line 112
DetailedFpr(effect) == RMul(RSub(RDiv(ROne, effect), ROne), RInt(100))

\* lines 113-115 and 122-129: the dict returned
DetailedResult(effect, fpr, current_pay) ==
  [cumulative_effect |-> effect,
   fpr_percentage |-> fpr,
   pay_erosion |-> DetailedErosion(effect),
   purchasing_power |-> RMul(effect, RInt(100)),
   pay_needed_for_fpr |->
     RMul(RInt(current_pay), RAdd(ROne, RDiv(fpr, RInt(100)))),
   current_shortfall |->
     RSub(RMul(RInt(current_pay), RAdd(ROne, RDiv(fpr, RInt(100)))),
          RInt(current_pay))]

\* lines 59-108: the table, the window and the loop
calculate_fpr_detailed(name, measure, first_year, last_year) ==
  DetailedLoop(DetailedPayData(name), InflationKey(measure), first_year,
               IndexOfYear(DetailedPayData(name), first_year, 0),
               DetailedEndIndex(DetailedPayData(name), last_year),
               [effect |-> ROne, output |-> <<>>])

\* bands main() passes, and one the script has no awards for
DetailedNodalPoints ==
  {NODAL_POINTS[1], NODAL_POINTS[4],
   [name |-> "Nodal 9", base_pay |-> 50000, post_ddrb_pay |-> 52000]}

\* years of the script's table, and 2025/2026, which it does not have
DetailedYears ==
  { "2008/2009", "2009/2010", "2014/2015", "2022/2023", "2023/2024",
    "2024/2025", "2025/2026" }

DetInit ==
  /\ det_pc = "idle"
  /\ det_nodal_point = NODAL_POINTS[1]
  /\ det_inflation_type = "CPI"
  /\ det_start_year = "2008/2009"
  /\ det_end_year = "2024/2025"
  /\ det_output = <<>>
  /\ det_result = None

\* one call of calculate_fpr_detailed with an open output file
CallFprDetailed ==
  /\ det_pc = "idle"
  /\ det_pc' = "done"
  /\ \E np \in DetailedNodalPoints, it \in FprInflationTypes,
        sy \in DetailedYears, ey \in DetailedYears :
       /\ det_nodal_point' = np
       /\ det_inflation_type' = it
       /\ det_start_year' = sy
       /\ det_end_year' = ey
       /\ LET loop == calculate_fpr_detailed(np.name, it, sy, ey)
          IN  /\ det_output' = loop.output
              /\ det_result' = DetailedResult(loop.effect, DetailedFpr(loop.effect),
                                              np.base_pay)
  /\ UNCHANGED << fpr_vars, eng_vars, tax_vars, ui_vars >>

\* main() takes the dict; the next call starts from a new table
FprDetailedDone ==
  /\ det_pc = "done"
  /\ det_pc' = "idle"
  /\ det_nodal_point' = NODAL_POINTS[1]
  /\ det_inflation_type' = "CPI"
  /\ det_start_year' = "2008/2009"
  /\ det_end_year' = "2024/2025"
  /\ det_output' = <<>>
  /\ det_result' = None
  /\ UNCHANGED << fpr_vars, eng_vars, tax_vars, ui_vars >>

(***************************************************************************)
(* The sidebar of src/main.py: st.session_state and the callbacks of its   *)
(* widgets.  A change of a widget stores the new value, runs the widget's  *)
(* on_change callback and then runs the script again (setup_sidebar).      *)
(***************************************************************************)
\* the loop of lines 166-182 from the row of 0-based index i up to, not
\* including, row last
RECURSIVE FprLoop(_, _, _, _, _, _)
FprLoop(table, key, inputs, i, last, effect) ==
  IF i >= last THEN effect
  ELSE IF SkipsRow(RowInflation(table[i + 1], key, inputs))
    THEN FprLoop(table, key, inputs, i + 1, last, effect)
  ELSE FprLoop(table, key, inputs, i + 1, last,
               ApplyRow(effect, table[i + 1].pay_award,
                        RowInflation(table[i + 1], key, inputs)))

\* calculate_fpr_percentage as its callers see it: the value returned
calculate_fpr_percentage(first_year, last_year, measure, name, inputs) ==
  FprFormula(FprLoop(OverriddenPayData(name), InflationKey(measure), inputs,
                     IndexOfYear(OverriddenPayData(name), first_year, 0),
                     IndexOfYear(OverriddenPayData(name), last_year,
                                 Len(OverriddenPayData(name))),
                     ROne))

\* DEFAULT_NODAL_PERCENTAGES, in percent
DEFAULT_NODAL_PERCENTAGES ==
  [t \in {"RPI", "CPI", "CPIH"} |->
     [y \in {1, 2} |->
        [b \in NodalNames |->
           RDec(CASE t = "RPI" /\ y = 1 ->
                       (CASE b = "Nodal 1" -> 90 [] b = "Nodal 2" -> 95
                          [] b = "Nodal 3" -> 90 [] b = "Nodal 4" -> 100
                          [] b = "Nodal 5" -> 110)
                  [] t = "RPI" /\ y = 2 ->
                       (CASE b = "Nodal 1" -> 81 [] b = "Nodal 2" -> 89
                          [] b = "Nodal 3" -> 94 [] b = "Nodal 4" -> 111
                          [] b = "Nodal 5" -> 109)
                  [] t = "CPI" /\ y = 1 ->
                       (CASE b = "Nodal 1" -> 0 [] b = "Nodal 2" -> 5
                          [] b = "Nodal 3" -> 5 [] b = "Nodal 4" -> 20
                          [] b = "Nodal 5" -> 20)
                  [] t = "CPI" /\ y = 2 ->
                       (CASE b = "Nodal 1" -> 0 [] b = "Nodal 2" -> 0
                          [] b = "Nodal 3" -> 0 [] b = "Nodal 4" -> 10
                          [] b = "Nodal 5" -> 17)
                  [] t = "CPIH" /\ y = 1 ->
                       (CASE b = "Nodal 1" -> 0 [] b = "Nodal 2" -> 0
                          [] b = "Nodal 3" -> 0 [] b = "Nodal 4" -> 7
                          [] b = "Nodal 5" -> 14)
                  [] t = "CPIH" /\ y = 2 -> 0,
                10)]]]

\* the largest value the model gives the "Number of Years" input (0..10 in
\* the sidebar, 2 by default)
MaxNumYears == 2

\* lines 205-224: the keys initialize_session_state sets.  The keys that exist
\* once per year (inflation_<year>, nodal_percentages_<year>,
\* mypd_nodal_percentage_<name>_<year>) are functions of the years that have
\* the key; fpr_targets is held as the call of update_fpr_targets that
\* computed it (FprTargets gives its values)
initialize_session_state ==
  [fpr_start_year |-> AVAILABLE_YEARS[1],
   fpr_end_year |-> "2025/2026",
   inflation_type |-> "RPI",
   end_year_options |-> Tail(AVAILABLE_YEARS),
   fpr_targets |-> <<>>,
   year_inputs |-> <<>>,
   global_inflation |-> RDec(20, 10),
   global_pay_rise |-> RZero,
   num_years |-> 2,
   rpi_2025_26 |-> RDec(45, 10),
   cpi_2025_26 |-> RDec(35, 10),
   cpih_2025_26 |-> RDec(40, 10),
   inflation |-> <<>>,
   nodal_percentages |-> <<>>,
   mypd_nodal_percentage |-> <<>>]

\* lines 230-246: the year_inputs update_fpr_targets works with; <<>> is the
\* missing or empty argument
TargetInputs(ss, inputs) ==
  IF inputs = <<>>
    THEN << [rpi |-> RDec(45, 1000), cpi |-> RDec(35, 1000),
             cpih |-> RDec(40, 1000),
             inflation |-> CASE ss.inflation_type = "RPI" -> RDec(45, 1000)
                             [] ss.inflation_type = "CPI" -> RDec(35, 1000)
                             [] OTHER -> RDec(40, 1000)] >>
    ELSE inputs

\* lines 228-252: update_fpr_targets(year_inputs)
update_fpr_targets(ss, inputs) ==
  [ss EXCEPT !.fpr_targets =
     [start_year |-> ss.fpr_start_year, end_year |-> ss.fpr_end_year,
      inflation_type |-> ss.inflation_type,
      year_inputs |-> TargetInputs(ss, inputs)]]

\* lines 248-252: the dict a call of update_fpr_targets stores
FprTargets(call) ==
  [b \in NodalNames |->
     calculate_fpr_percentage(call.start_year, call.end_year,
                              call.inflation_type, b, call.year_inputs)]

\* line 255: AVAILABLE_YEARS.index(label), counted from 1
AvailableIndex(label) ==
  CHOOSE i \in 1..Len(AVAILABLE_YEARS) : AVAILABLE_YEARS[i] = label

\* lines 255-256: AVAILABLE_YEARS[start_index + 1:]
EndYearOptions(first_year) ==
  SubSeq(AVAILABLE_YEARS, AvailableIndex(first_year) + 1, Len(AVAILABLE_YEARS))

\* line 258 raises IndexError: the end year is not among the options and
\* there is no option
EndYearOptionsRaises(ss) ==
  /\ \A i \in 1..Len(EndYearOptions(ss.fpr_start_year)) :
       EndYearOptions(ss.fpr_start_year)[i] # ss.fpr_end_year
  /\ EndYearOptions(ss.fpr_start_year) = <<>>

\* lines 255-258 of update_end_year_options, when line 258 does not raise
EndYearChosen(ss, options) ==
  [ss EXCEPT !.end_year_options = options,
             !.fpr_end_year =
               IF \E i \in 1..Len(options) : options[i] = ss.fpr_end_year
                 THEN ss.fpr_end_year
                 ELSE options[Len(options)]]

\* lines 254-262
update_end_year_options(ss) ==
  update_fpr_targets(EndYearChosen(ss, EndYearOptions(ss.fpr_start_year)),
                     ss.year_inputs)

\* lines 274-285 and 290-299: the value update_global_pay_rise_for_inflation
\* writes for a year and a nodal point
InflationDefault(ss, y, b) ==
  IF y <= 2 /\ y \in DOMAIN DEFAULT_NODAL_PERCENTAGES[ss.inflation_type]
    THEN DEFAULT_NODAL_PERCENTAGES[ss.inflation_type][y][b]
    ELSE IF RGt(ss.global_pay_rise, RZero) THEN ss.global_pay_rise ELSE RZero

\* lines 265-299
update_global_pay_rise_for_inflation(ss) ==
  [ss EXCEPT
     !.nodal_percentages =
       [y \in DOMAIN ss.nodal_percentages |->
          IF y \in 1..ss.num_years
            THEN [b \in NodalNames |-> InflationDefault(ss, y, b)]
            ELSE ss.nodal_percentages[y]],
     !.mypd_nodal_percentage =
       [y \in DOMAIN ss.mypd_nodal_percentage |->
          IF y \in 1..ss.num_years
            THEN [b \in NodalNames |-> InflationDefault(ss, y, b)]
            ELSE ss.mypd_nodal_percentage[y]]]

\* lines 398-408
update_global_settings(ss) ==
  [ss EXCEPT
     !.inflation =
       [y \in DOMAIN ss.inflation \cup 1..ss.num_years |->
          IF y \in 1..ss.num_years THEN ss.global_inflation ELSE ss.inflation[y]],
     !.mypd_nodal_percentage =
       IF RGt(ss.global_pay_rise, RZero)
         THEN [y \in DOMAIN ss.mypd_nodal_percentage \cup 1..ss.num_years |->
                 IF y \in 1..ss.num_years
                   THEN [b \in NodalNames |-> ss.global_pay_rise]
                   ELSE ss.mypd_nodal_percentage[y]]
         ELSE ss.mypd_nodal_percentage,
     !.nodal_percentages =
       IF RGt(ss.global_pay_rise, RZero)
         THEN [y \in DOMAIN ss.nodal_percentages |->
                 IF y \in 1..ss.num_years
                   THEN [b \in NodalNames |-> ss.global_pay_rise]
                   ELSE ss.nodal_percentages[y]]
         ELSE ss.nodal_percentages]

\* lines 410-417
check_individual_changes(ss) ==
  \E y \in 1..ss.num_years :
    \/ y \in DOMAIN ss.inflation /\ ~REq(ss.inflation[y], ss.global_inflation)
    \/ \E b \in NodalNames :
         /\ y \in DOMAIN ss.mypd_nodal_percentage
         /\ ~REq(ss.mypd_nodal_percentage[y][b], ss.global_pay_rise)

\* lines 423-439: the keys of the years 0..num_years that are missing are set
YearKeysSet(ss) ==
  [ss EXCEPT
     !.nodal_percentages =
       [y \in DOMAIN ss.nodal_percentages \cup 0..ss.num_years |->
          IF y \in DOMAIN ss.nodal_percentages THEN ss.nodal_percentages[y]
          ELSE IF y = 0 THEN [b \in NodalNames |-> RZero]
          ELSE IF y <= 2 /\ y \in DOMAIN DEFAULT_NODAL_PERCENTAGES[ss.inflation_type]
            THEN DEFAULT_NODAL_PERCENTAGES[ss.inflation_type][y]
          ELSE [b \in NodalNames |->
                  IF RGt(ss.global_pay_rise, RZero) THEN ss.global_pay_rise
                  ELSE RZero]],
     !.inflation =
       [y \in DOMAIN ss.inflation \cup 0..ss.num_years |->
          IF y \in DOMAIN ss.inflation THEN ss.inflation[y]
          ELSE IF y = 0 THEN RDec(33, 1000)
          ELSE ss.global_inflation]]

\* lines 575-582: the value a percentage input of year y >= 1 starts with
DefaultValue(ss, y, b) ==
  IF RGt(ss.global_pay_rise, RZero) THEN ss.global_pay_rise
  ELSE IF y <= 2 /\ y \in DOMAIN DEFAULT_NODAL_PERCENTAGES[ss.inflation_type]
    THEN DEFAULT_NODAL_PERCENTAGES[ss.inflation_type][y][b]
  ELSE ss.nodal_percentages[y][b]

\* lines 584-593: the percentage inputs of the years 1..num_years are drawn; an
\* input whose key is missing takes its default value, the others keep theirs
WidgetsDrawn(ss) ==
  [ss EXCEPT
     !.mypd_nodal_percentage =
       [y \in DOMAIN ss.mypd_nodal_percentage \cup 1..ss.num_years |->
          IF y \in DOMAIN ss.mypd_nodal_percentage
            THEN ss.mypd_nodal_percentage[y]
            ELSE [b \in NodalNames |-> DefaultValue(ss, y, b)]]]

\* lines 441-597: the list setup_year_inputs_sidebar returns, with the keys of
\* its entries that the sidebar's functions read
YearInputsOf(ss) ==
  [y \in 1..(ss.num_years + 1) |->
     IF y = 1
       THEN [rpi |-> RDiv(ss.rpi_2025_26, RInt(100)),
             cpi |-> RDiv(ss.cpi_2025_26, RInt(100)),
             cpih |-> RDiv(ss.cpih_2025_26, RInt(100)),
             inflation |->
               CASE ss.inflation_type = "RPI" -> RDiv(ss.rpi_2025_26, RInt(100))
                 [] ss.inflation_type = "CPI" -> RDiv(ss.cpi_2025_26, RInt(100))
                 [] OTHER -> RDiv(ss.cpih_2025_26, RInt(100))]
       ELSE [inflation |-> RDiv(ss.inflation[y - 1], RInt(100)),
             nodal_percentages |->
               [b \in NodalNames |->
                  RDiv(ss.mypd_nodal_percentage[y - 1][b], RInt(100))]]]

\* lines 365-371: year_inputs is stored and the targets are computed from it
YearInputsStored(ss, inputs) ==
  update_fpr_targets([ss EXCEPT !.year_inputs = inputs], inputs)

\* lines 419-597
setup_year_inputs_sidebar(ss) == WidgetsDrawn(YearKeysSet(ss))

\* lines 301-396: one run of the script; every key of
\* initialize_session_state is set by then
setup_sidebar(ss) ==
  YearInputsStored(setup_year_inputs_sidebar(ss),
                   YearInputsOf(setup_year_inputs_sidebar(ss)))

\* the page after its first run; check_individual_changes found no key of a
\* year then
UiInit ==
  /\ session_state = setup_sidebar(initialize_session_state)
  /\ ui_event = "none"
  /\ ui_raised = "none"
  /\ warning = FALSE

\* the values the model enters in the sidebar's inputs, in percent
GlobalInflationChoices == {RDec(20, 10), RDec(35, 10)}

GlobalPayRiseChoices == {RZero, RDec(50, 10)}

YearInflationChoices == {RDec(40, 10)}

NodalPercentageChoices == {RDec(70, 10)}

\* the nodal points whose percentage inputs the model edits
EditedNames == {"Nodal 1"}

\* lines 358-371: the script runs again after a callback; the warning is
\* decided at line 358, before the inputs of the years are drawn
Rerun(ss) ==
  /\ session_state' = setup_sidebar(ss)
  /\ warning' = check_individual_changes(ss)
  /\ ui_raised' = "none"

\* lines 254-258 and the run after them: a raise in the callback leaves the
\* keys written before it and ends the run
StartYearPicked(ss) ==
  IF EndYearOptionsRaises(ss)
    THEN /\ session_state' =
              [ss EXCEPT !.end_year_options = EndYearOptions(ss.fpr_start_year)]
         /\ ui_raised' = "IndexError"
         /\ UNCHANGED warning
    ELSE Rerun(update_end_year_options(ss))

\* lines 310-316: "Calculation start year", on_change=update_end_year_options
SelectStartYear ==
  /\ ui_raised = "none"
  /\ \E i \in 1..Len(AVAILABLE_YEARS) :
       /\ AVAILABLE_YEARS[i] # session_state.fpr_start_year
       /\ StartYearPicked([session_state EXCEPT
                             !.fpr_start_year = AVAILABLE_YEARS[i]])
  /\ ui_event' = "fpr_start_year"
  /\ UNCHANGED << fpr_vars, eng_vars, tax_vars, det_vars >>

\* lines 317-324: "Calculation end year", on_change=update_fpr_targets
SelectEndYear ==
  /\ ui_raised = "none"
  /\ \E i \in 1..Len(session_state.end_year_options) :
       /\ session_state.end_year_options[i] # session_state.fpr_end_year
       /\ Rerun(update_fpr_targets(
                  [session_state EXCEPT
                     !.fpr_end_year = session_state.end_year_options[i]],
                  <<>>))
  /\ ui_event' = "fpr_end_year"
  /\ UNCHANGED << fpr_vars, eng_vars, tax_vars, det_vars >>

\* line 306: "Select inflation measure", on_change=lambda:
\* [update_fpr_targets(), update_global_pay_rise_for_inflation()]
SelectInflationType ==
  /\ ui_raised = "none"
  /\ \E t \in {"RPI", "CPI", "CPIH"} :
       /\ t # session_state.inflation_type
       /\ Rerun(update_global_pay_rise_for_inflation(
                  update_fpr_targets(
                    [session_state EXCEPT !.inflation_type = t], <<>>)))
  /\ ui_event' = "inflation_type"
  /\ UNCHANGED << fpr_vars, eng_vars, tax_vars, det_vars >>

\* lines 325-326: "Number of Years", no callback
SetNumYears ==
  /\ ui_raised = "none"
  /\ \E n \in 0..MaxNumYears :
       /\ n # session_state.num_years
       /\ Rerun([session_state EXCEPT !.num_years = n])
  /\ ui_event' = "num_years"
  /\ UNCHANGED << fpr_vars, eng_vars, tax_vars, det_vars >>

\* line 352: "Global Inflation Rate (%)", on_change=update_global_settings
SetGlobalInflation ==
  /\ ui_raised = "none"
  /\ \E v \in GlobalInflationChoices :
       /\ ~REq(v, session_state.global_inflation)
       /\ Rerun(update_global_settings(
                  [session_state EXCEPT !.global_inflation = v]))
  /\ ui_event' = "global_inflation"
  /\ UNCHANGED << fpr_vars, eng_vars, tax_vars, det_vars >>

\* line 354: "Global Pay Rise (%)", on_change=update_global_settings
SetGlobalPayRise ==
  /\ ui_raised = "none"
  /\ \E v \in GlobalPayRiseChoices :
       /\ ~REq(v, session_state.global_pay_rise)
       /\ Rerun(update_global_settings(
                  [session_state EXCEPT !.global_pay_rise = v]))
  /\ ui_event' = "global_pay_rise"
  /\ UNCHANGED << fpr_vars, eng_vars, tax_vars, det_vars >>

\* lines 546-554: the inflation input of a year,
\* on_change=check_individual_changes, whose result the callback drops
SetYearInflation ==
  /\ ui_raised = "none"
  /\ \E y \in 1..session_state.num_years, v \in YearInflationChoices :
       /\ ~REq(v, session_state.inflation[y])
       /\ Rerun([session_state EXCEPT !.inflation[y] = v])
  /\ ui_event' = "inflation"
  /\ UNCHANGED << fpr_vars, eng_vars, tax_vars, det_vars >>

\* lines 584-593: the percentage input of a year and a nodal point,
\* on_change=check_individual_changes, whose result the callback drops
SetNodalPercentage ==
  /\ ui_raised = "none"
  /\ \E y \in 1..session_state.num_years, b \in EditedNames,
        v \in NodalPercentageChoices :
       /\ ~REq(v, session_state.mypd_nodal_percentage[y][b])
       /\ Rerun([session_state EXCEPT !.mypd_nodal_percentage[y][b] = v])
  /\ ui_event' = "mypd_nodal_percentage"
  /\ UNCHANGED << fpr_vars, eng_vars, tax_vars, det_vars >>

vars == << fpr_vars, eng_vars, tax_vars, det_vars, ui_vars >>

Init == FprInit /\ EngInit /\ TaxInit /\ DetInit /\ UiInit

\* the user picks the years and the inflation measure
NextYears == SelectStartYear \/ SelectEndYear \/ SelectInflationType

SpecYears == Init /\ [][NextYears]_vars

\* the user changes the settings of the future years
NextSettings ==
  \/ SelectInflationType
  \/ SetNumYears
  \/ SetGlobalInflation
  \/ SetGlobalPayRise
  \/ SetYearInflation
  \/ SetNodalPercentage

SpecSettings == Init /\ [][NextSettings]_vars

NextFpr ==
  \/ FprCall /\ UNCHANGED << eng_vars, tax_vars, det_vars, ui_vars >>
  \/ FprSkipRow /\ UNCHANGED << eng_vars, tax_vars, det_vars, ui_vars >>
  \/ FprApplyRow /\ UNCHANGED << eng_vars, tax_vars, det_vars, ui_vars >>
  \/ FprReturn /\ UNCHANGED << eng_vars, tax_vars, det_vars, ui_vars >>
  \/ FprDone /\ UNCHANGED << eng_vars, tax_vars, det_vars, ui_vars >>

SpecFpr == Init /\ [][NextFpr]_vars

NextEngine == CalcResultsCall \/ Year0Step \/ YearNStep \/ NextBand \/ CalcResultsReturn

SpecEngine == Init /\ [][NextEngine]_vars

NextTax ==
  CallPensionContribution \/ CallIncomeTax \/ CallNationalInsurance \/ CallEmployerNi

SpecTax == Init /\ [][NextTax]_vars

NextDetailed == CallFprDetailed \/ FprDetailedDone

SpecDetailed == Init /\ [][NextDetailed]_vars

(***************************************************************************)
(* Claims about the FPR target calculation.                                *)
(***************************************************************************)
TableYears == {BasePayData[i].year : i \in 1..Len(BasePayData)}

\* the chronological position of a year of the table, 1 for the baseline
YearPos(label) == CHOOSE i \in 1..Len(BasePayData) : BasePayData[i].year = label

\* the product of (1 + payAward)/(1 + inflation) over the rows lo..hi of the
\* table whose inflation for the measure is neither zero nor unset
RECURSIVE WindowEffect(_, _, _, _)
WindowEffect(table, key, lo, hi) ==
  IF hi < lo THEN ROne
  ELSE LET rate == RateOf(table[hi], key)
           before == WindowEffect(table, key, lo, hi - 1)
       IN  IF IsNone(rate) \/ REq(rate, RZero) THEN before
           ELSE RDiv(RMul(before, RAdd(ROne, table[hi].pay_award)),
                     RAdd(ROne, rate))

\* C1: for every band, measure and window of years of the table, the call
\* returns (1/cumulativeEffect - 1) * 100, cumulativeEffect being the product
\* of (1 + payAward)/(1 + inflation) over the rows from the start year up to,
\* not including, the end year that have a non-zero, set inflation value.
C1_FprOfWindow ==
  (fpr_pc = "done" /\ start_year \in TableYears /\ end_year \in TableYears) =>
    /\ fpr_raised = "none"
    /\ LET effect == WindowEffect(pay_data, InflationKey(inflation_type),
                                  YearPos(start_year), YearPos(end_year) - 1)
       IN  REq(fpr_percentage,
               RMul(RSub(RDiv(ROne, effect), ROne), RInt(100)))

\* a call over the whole table for Nodal 1: the baseline row was skipped, the
\* 2024/2025 row (award 0.09, RPI 0.045) was applied, and erosion is left
C1_Witness ==
  /\ fpr_pc = "done"
  /\ start_year = "2008/2009"
  /\ end_year = "2025/2026"
  /\ nodal_point = "Nodal 1"
  /\ inflation_type = "RPI"
  /\ idx = 17
  /\ REq(inflation_rate, RDec(45, 1000))
  /\ RGt(fpr_percentage, RInt(20))

\* C9: a call with a start or end year that is not in the table fails with
\* UnknownYear.
C9_UnknownYearRaises ==
  (fpr_pc = "done" /\ (start_year \notin TableYears \/ end_year \notin TableYears)) =>
    fpr_raised = "UnknownYear"

\* C10: a call whose start year is not strictly before its end year fails
\* with InvalidRange instead of returning a percentage.
C10_InvalidRangeRaises ==
  (/\ fpr_pc = "done"
   /\ start_year \in TableYears
   /\ end_year \in TableYears
   /\ YearPos(start_year) >= YearPos(end_year)) =>
    /\ fpr_raised = "InvalidRange"
    /\ IsNone(fpr_percentage)

(***************************************************************************)
(* Claims about the yearly progression and the cost aggregation.           *)
(***************************************************************************)
\* the years recorded so far for the nodal point in progress
RecordedYears == 1..(Len(real_terms_pay_cuts) - 1)

\* (1 + total_pay_rise) / (1 + inflation) - 1 of recorded year k
RealTermsChangeOf(k) ==
  RSub(RDiv(RAdd(ROne, RDiv(net_change_in_pay[k + 1], RInt(100))),
            RAdd(ROne, year_inputs[k].inflation)),
       ROne)

\* C2: in the progression of every nodal point the erosion starts at
\* -fpr_percentage/100 and the value recorded for each year is
\* (1 + previous erosion) * (1 + real terms change of the year) - 1.
C2_ErosionCompounds ==
  eng_pc = "years" =>
    /\ REq(real_terms_pay_cuts[1],
           RDiv(RNeg(fpr_percentages[NODAL_POINTS[band].name]), RInt(100)))
    /\ \A k \in RecordedYears :
         REq(real_terms_pay_cuts[k + 1],
             RSub(RMul(RAdd(ROne, real_terms_pay_cuts[k]),
                       RAdd(ROne, RealTermsChangeOf(k))),
                  ROne))

\* every year of the run has no percentage, no consolidated increase and no
\* inflation
ZeroRun ==
  \A k \in 1..Len(year_inputs) :
    /\ year_inputs[k].inflation.s = 0
    /\ \A b \in NodalNames : /\ year_inputs[k].nodal_percentages[b].s = 0
                             /\ year_inputs[k].pound_increases[b].s = 0

\* C3: a run whose years all have zero increases and zero inflation leaves the
\* nominal pay at base_pay and the erosion at -fpr_percentage/100 in every year.
C3_ZeroRunLeavesErosion ==
  (eng_pc = "years" /\ ZeroRun) =>
    \A k \in RecordedYears :
      /\ REq(pay_progression_nominal[k + 1], RInt(NODAL_POINTS[band].base_pay))
      /\ REq(real_terms_pay_cuts[k + 1],
             RDiv(RNeg(fpr_percentages[NODAL_POINTS[band].name]), RInt(100)))

\* the nodal point in progress has a target of 10% and has recorded its only
\* year, whose real terms change is +10%
TenPercentYear ==
  /\ eng_pc = "years"
  /\ Len(year_inputs) = 1
  /\ year = 1
  /\ REq(fpr_percentages[NODAL_POINTS[band].name], RInt(10))
  /\ REq(RealTermsChangeOf(1), RDec(10, 100))

\* C4: with a target of 10% and a single year whose real terms change is
\* exactly +10%, the erosion recorded is 0 and the progress recorded is 100.
C4_TargetMetInOneYear ==
  TenPercentYear =>
    /\ REq(real_terms_pay_cuts[2], RZero)
    /\ REq(fpr_progress[2], RInt(100))

\* the target is met in one year at an inflation that is not zero
C4_Witness ==
  /\ TenPercentYear
  /\ year_inputs[1].inflation.s # 0
  /\ fpr_progress[2] # RZero

\* the nodal points whose results calculate_results has collected
Collected == 1..Len(results)

\* the sum over the collected nodal points of basic pay cost times factor,
\* pension cost and employer NI cost of year j (counted from 1)
CostPartsOfYear(j, factor) ==
  RSum([b \in Collected |->
          RAdd(RAdd(RMul(results[b].yearly_basic_costs[j], factor),
                    results[b].yearly_pension_costs[j]),
               results[b].yearly_employer_ni_costs[j])])

\* total pay over basic pay: 1 + additional_hours/40 + out_of_hours*0.37/40
HoursFactor ==
  RAdd(RAdd(ROne, RDec(additional_hours, 40)),
       RMul(RDec(out_of_hours, 40), RDec(37, 100)))

\* C5 as stated: for every simulated year, cumulative_costs[year] is the sum
\* over the nodal points of basic pay cost + pension cost + employer NI cost,
\* whatever additional_hours and out_of_hours are.
C5_TotalIsBasicPensionNi ==
  eng_pc = "done" =>
    \A j \in 1..Len(year_inputs) :
      REq(cumulative_costs[j], CostPartsOfYear(j, ROne))

\* C5 amended: for every simulated year, cumulative_costs[year] is the sum
\* over the nodal points of the total pay cost + pension cost + employer NI
\* cost, the total pay cost being the basic pay cost times
\* 1 + additional_hours/40 + out_of_hours*0.37/40; it is the sum of basic pay
\* cost + pension cost + employer NI cost when both hours settings are 0.
C5_TotalIsTotalPayPensionNi ==
  eng_pc = "done" =>
    \A j \in 1..Len(year_inputs) :
      /\ REq(cumulative_costs[j], CostPartsOfYear(j, HoursFactor))
      /\ (additional_hours = 0 /\ out_of_hours = 0) =>
           REq(cumulative_costs[j], CostPartsOfYear(j, ROne))

\* a finished run with additional and out-of-hours work whose first year costs
\* something
C5_Witness ==
  /\ eng_pc = "done"
  /\ additional_hours > 0
  /\ out_of_hours > 0
  /\ cumulative_costs[1].s # 0
  /\ \E b \in Collected : results[b].yearly_basic_costs[1].s # 0

\* C6: cumulative_costs[j] is the sum over the collected nodal points of their
\* Yearly Total Costs[j], for every year j, and total_nominal_cost is the sum
\* over the nodal points and years of Yearly Total Costs, which is the sum of
\* cumulative_costs.
C6_AggregationExact ==
  eng_pc \in {"years", "done"} =>
    /\ \A j \in 1..Len(year_inputs) :
         REq(cumulative_costs[j],
             RSum([b \in Collected |-> results[b].yearly_total_costs[j]]))
    /\ REq(total_nominal_cost,
           RSum([b \in Collected |-> RSum(results[b].yearly_total_costs)]))
    /\ REq(total_nominal_cost, RSum(cumulative_costs))

\* a finished run of two years or more that costs something in its first two
\* years
C6_Witness ==
  /\ eng_pc = "done"
  /\ Len(results) = Len(NODAL_POINTS)
  /\ Len(year_inputs) >= 2
  /\ cumulative_costs[1].s # 0
  /\ cumulative_costs[2].s # 0
  /\ total_nominal_cost.s # 0

\* the sum over the years of Yearly Basic Costs / Doctor Count of a result
BasicDeltaSum(result) ==
  RSum([j \in 1..Len(result.yearly_basic_costs) |->
          RDiv(result.yearly_basic_costs[j], RInt(result.doctor_count))])

\* C7: for every nodal point with a positive head count, the sum over the
\* years of Yearly Basic Costs / head count is Final Pay - 2024/25 Pay, which
\* is the Nominal Total Increase.
C7_BasicDeltasSumToIncrease ==
  \A b \in Collected :
    results[b].doctor_count > 0 =>
      /\ REq(BasicDeltaSum(results[b]),
             RSub(results[b].final_pay, results[b].pay_2024_25))
      /\ REq(BasicDeltaSum(results[b]), results[b].nominal_total_increase)

\* a nodal point with staff, working additional hours, whose pay rose in each
\* of two years
C7_Witness ==
  \E b \in Collected :
    /\ results[b].doctor_count > 0
    /\ additional_hours > 0
    /\ Len(results[b].yearly_basic_costs) >= 2
    /\ results[b].yearly_basic_costs[1].s # 0
    /\ results[b].yearly_basic_costs[2].s # 0
    /\ results[b].nominal_total_increase.s # 0

\* C8: when the target of a nodal point is 0, the progress recorded for every
\* year is the sentinel 100 (the progression has no error to fail with).
C8_ZeroTargetSentinel ==
  (eng_pc = "years" /\ fpr_percentages[NODAL_POINTS[band].name].s = 0) =>
    \A k \in RecordedYears : REq(fpr_progress[k + 1], RInt(100))

(***************************************************************************)
(* Claims about the tax, National Insurance and pension functions.         *)
(***************************************************************************)
\* C11: a call of any of the four functions with a negative income fails with
\* InvalidIncome.
C11_NegativeIncomeRaises ==
  (tax_fn # "none" /\ tax_income.s < 0) => tax_raised = "InvalidIncome"

RMin(a, b) == IF RLe(a, b) THEN a ELSE b

RMax(a, b) == IF RLe(a, b) THEN b ELSE a

\* the part of income that lies between lo and hi
IncomeBetween(income, lo, hi) ==
  RMax(RZero, RSub(RMin(income, RInt(hi)), RInt(lo)))

\* the progressive tax: 20% of the income between 12570 and 50270, 40% of the
\* income between 50270 and 125140, 45% of the income above 125140
ProgressiveTax(income) ==
  RAdd(RAdd(RMul(RDec(20, 100), IncomeBetween(income, 12570, 50270)),
            RMul(RDec(40, 100), IncomeBetween(income, 50270, 125140))),
       RMul(RDec(45, 100), RMax(RZero, RSub(income, RInt(125140)))))

\* C12: calculate_income_tax is the progressive function with thresholds
\* 12570, 50270, 125140 and rates 0, 0.20, 0.40, 0.45; it is 0 for every
\* income <= 12570, 7540 at 50270 and 37488 at 125140.
C12_IncomeTaxBands ==
  tax_fn = "calculate_income_tax" =>
    /\ tax_raised = "none"
    /\ REq(tax_value, ProgressiveTax(tax_income))
    /\ RLe(tax_income, RInt(12570)) => REq(tax_value, RZero)
    /\ REq(tax_income, RInt(50270)) => REq(tax_value, RInt(7540))
    /\ REq(tax_income, RInt(125140)) => REq(tax_value, RInt(37488))

\* the income tax of the last threshold
C12_Witness ==
  /\ tax_fn = "calculate_income_tax"
  /\ REq(tax_income, RInt(125140))
  /\ REq(tax_value, RInt(37488))

\* the function called, at another income
TaxFnAt(income) ==
  CASE tax_fn = "calculate_pension_contribution" ->
         calculate_pension_contribution(income)
    [] tax_fn = "calculate_income_tax" -> calculate_income_tax(income)
    [] tax_fn = "calculate_national_insurance" ->
         calculate_national_insurance(income)
    [] tax_fn = "calculate_employer_ni" -> calculate_employer_ni(income)

\* the highest marginal rate of the function called
TopRate ==
  CASE tax_fn = "calculate_pension_contribution" -> RDec(237, 1000)
    [] tax_fn = "calculate_income_tax" -> RDec(45, 100)
    [] tax_fn = "calculate_national_insurance" -> RDec(8, 100)
    [] tax_fn = "calculate_employer_ni" -> RDec(138, 1000)

\* C13: over incomes >= 0 each of the four functions is non-decreasing, and
\* continuous at its band boundaries: from a lower income to a higher one the
\* value rises by no more than the top marginal rate times the difference of
\* the incomes, so it cannot jump at a threshold; employer NI of 0 is 0.
C13_MonotonicContinuous ==
  (tax_fn # "none" /\ tax_income.s >= 0) =>
    /\ \A lower \in TaxIncomes :
         (lower.s >= 0 /\ RLe(lower, tax_income)) =>
           /\ RLe(TaxFnAt(lower), tax_value)
           /\ RLe(RSub(tax_value, TaxFnAt(lower)),
                  RMul(TopRate, RSub(tax_income, lower)))
    /\ (tax_fn = "calculate_employer_ni" /\ tax_income.s = 0) =>
         REq(tax_value, RZero)

\* employer NI a penny above the start of its second band
C13_Witness ==
  /\ tax_fn = "calculate_employer_ni"
  /\ REq(tax_income, RDec(100 * 52 * 481 + 1, 100))
  /\ RGt(tax_value, RZero)

(***************************************************************************)
(* Further claims about the FPR target calculation.                        *)
(***************************************************************************)
\* C14: when the call names a band that has no entry in the override table,
\* the award of each overridden year is the one used when no band is named,
\* and the call does not fail.
C14_MissingOverrideIsAverage ==
  (fpr_pc \in {"loop", "done"} /\ nodal_point \notin NodalNames \cup {"None"}) =>
    /\ fpr_raised = "none"
    /\ \A i \in 1..Len(pay_data) :
         REq(pay_data[i].pay_award, OverriddenPayData("None")[i].pay_award)

(***************************************************************************)
(* Further claims about the yearly progression and its costs.              *)
(***************************************************************************)
\* C15: the progress recorded for every year is
\* (fprTarget/100 + erosion) / (fprTarget/100) * 100 of the erosion recorded
\* for that year, for every target other than 0.
C15_ProgressFromErosion ==
  (eng_pc = "years" /\ fpr_percentages[NODAL_POINTS[band].name].s # 0) =>
    \A k \in RecordedYears :
      REq(fpr_progress[k + 1],
          RMul(RDiv(RAdd(RDiv(fpr_percentages[NODAL_POINTS[band].name], RInt(100)),
                         real_terms_pay_cuts[k + 1]),
                    RDiv(fpr_percentages[NODAL_POINTS[band].name], RInt(100))),
               RInt(100)))

\* what year k (counted from 1) configures for one nodal point alone
OwnYearInput(name, k) ==
  [nodal_percentages |-> [b \in {name} |-> year_inputs[k].nodal_percentages[name]],
   pound_increases |-> [b \in {name} |-> year_inputs[k].pound_increases[name]],
   inflation |-> year_inputs[k].inflation]

\* the nominal pay of nodal point b after k years, from its own inputs
RECURSIVE OwnPayAfter(_, _)
OwnPayAfter(b, k) ==
  IF k = 0 THEN RInt(NODAL_POINTS[b].base_pay)
  ELSE IF k = 1
    THEN Year0NominalPay(NODAL_POINTS[b].base_pay,
                         OwnYearInput(NODAL_POINTS[b].name, 1), NODAL_POINTS[b].name)
  ELSE YearNNominalPay(OwnPayAfter(b, k - 1),
                       OwnYearInput(NODAL_POINTS[b].name, k), NODAL_POINTS[b].name)

\* the costs of nodal point b in year k, from its own inputs
OwnYearCosts(b, k) ==
  YearCosts(OwnPayAfter(b, k), OwnPayAfter(b, k - 1),
            doctor_counts[NODAL_POINTS[b].name], additional_hours, out_of_hours)

\* the result of nodal point b in year k is what its own inputs give
OwnYearOf(b, k, costs) ==
  /\ REq(results[b].pay_progression_nominal[k], OwnPayAfter(b, k))
  /\ REq(results[b].pay_progression_real[k],
         RDiv(OwnPayAfter(b, k), RAdd(ROne, year_inputs[k].inflation)))
  /\ REq(results[b].real_terms_pay_cuts[k],
         CurrentPayCut(fpr_percentages[NODAL_POINTS[b].name], OwnPayAfter(b, k),
                       NODAL_POINTS[b].base_pay, year_inputs[k].inflation))
  /\ REq(results[b].fpr_progress[k],
         CurrentProgress(fpr_percentages[NODAL_POINTS[b].name], OwnPayAfter(b, k),
                         NODAL_POINTS[b].base_pay, year_inputs[k].inflation))
  /\ REq(results[b].yearly_basic_costs[k], costs.basic_pay_cost)
  /\ REq(results[b].yearly_total_costs[k], costs.total_cost)
  /\ REq(results[b].yearly_tax_recouped[k], costs.tax_recouped)
  /\ REq(results[b].yearly_net_costs[k], costs.net_cost)
  /\ REq(results[b].yearly_employer_ni_costs[k], costs.employer_ni_cost)
  /\ REq(results[b].yearly_pension_costs[k], costs.pension_cost)

\* C16: the result of every nodal point is a function of its own head count,
\* target, percentages and consolidated increases (and the shared inflation
\* and hours): every list of its record has one entry per year, and every
\* entry is what the nodal point's own inputs give, whatever the other nodal
\* points were given and whichever were processed before it.
C16_BandsIndependent ==
  eng_pc = "done" =>
    \A b \in Collected :
      /\ results[b].nodal_point = NODAL_POINTS[b].name
      /\ Len(results[b].pay_progression_nominal) = Len(year_inputs)
      /\ Len(results[b].real_terms_pay_cuts) = Len(year_inputs)
      /\ Len(results[b].fpr_progress) = Len(year_inputs)
      /\ Len(results[b].yearly_total_costs) = Len(year_inputs)
      /\ \A k \in 1..Len(year_inputs) : OwnYearOf(b, k, OwnYearCosts(b, k))

\* a finished run of two years in which the nodal points were given different
\* increases and targets and the last one's pay rose
C16_Witness ==
  /\ eng_pc = "done"
  /\ Len(results) = Len(NODAL_POINTS)
  /\ Len(year_inputs) >= 2
  /\ year_inputs[1].nodal_percentages["Nodal 1"]
       # year_inputs[1].nodal_percentages["Nodal 5"]
  /\ fpr_percentages["Nodal 4"] # fpr_percentages["Nodal 5"]
  /\ results[5].yearly_total_costs[2].s # 0

\* the inputs of recorded year k for the nodal point in progress
PercentageOf(k) == year_inputs[k].nodal_percentages[NODAL_POINTS[band].name]

FlatOf(k) == year_inputs[k].pound_increases[NODAL_POINTS[band].name]

InflationOf(k) == year_inputs[k].inflation

\* (offeredPay - basePay) / basePay of the nodal point in progress
PreBakedAward ==
  RDiv(RInt(NODAL_POINTS[band].post_ddrb_pay - NODAL_POINTS[band].base_pay),
       RInt(NODAL_POINTS[band].base_pay))

\* C17: in year 0 the total pay rise is the pre-baked award
\* (offeredPay - basePay)/basePay plus the percentage increase plus the flat
\* increase over basePay, and the nominal pay is basePay * (1 + that rise).
C17_Year0IncludesAward ==
  (eng_pc = "years" /\ year >= 1) =>
    /\ REq(net_change_in_pay[2],
           RMul(RAdd(RAdd(PreBakedAward, PercentageOf(1)),
                     RDiv(FlatOf(1), RInt(NODAL_POINTS[band].base_pay))),
                RInt(100)))
    /\ REq(pay_progression_nominal[2],
           RMul(RInt(NODAL_POINTS[band].base_pay),
                RAdd(ROne, RAdd(RAdd(PreBakedAward, PercentageOf(1)),
                                RDiv(FlatOf(1), RInt(NODAL_POINTS[band].base_pay))))))

\* C18: in every year k >= 1 (the second recorded year onwards) the total pay
\* rise is percentage + inflation + flat/previous nominal pay and the nominal
\* pay is previous * (1 + percentage + inflation) + flat; in every year the
\* real pay is the nominal pay / (1 + inflation of the year).
C18_LaterYearsAndRealPay ==
  eng_pc = "years" =>
    \A k \in RecordedYears :
      /\ REq(pay_progression_real[k + 1],
             RDiv(pay_progression_nominal[k + 1], RAdd(ROne, InflationOf(k))))
      /\ k >= 2 =>
           /\ REq(net_change_in_pay[k + 1],
                  RMul(RAdd(RAdd(PercentageOf(k), InflationOf(k)),
                            RDiv(FlatOf(k), pay_progression_nominal[k])),
                       RInt(100)))
           /\ REq(pay_progression_nominal[k + 1],
                  RAdd(RMul(pay_progression_nominal[k],
                            RAdd(ROne, RAdd(PercentageOf(k), InflationOf(k)))),
                       FlatOf(k)))

\* a second year with a percentage, a flat increase and inflation, after a
\* first year that changed the pay
C18_Witness ==
  /\ eng_pc = "years"
  /\ year = 2
  /\ PercentageOf(2).s # 0
  /\ FlatOf(2).s # 0
  /\ InflationOf(2).s # 0
  /\ ~REq(pay_progression_nominal[2], RInt(NODAL_POINTS[band].base_pay))

\* the pay the costs of recorded year k are measured against, as claimed: the
\* offered pay for the first year, the previous nominal pay afterwards
ClaimedReference(k) ==
  IF k = 1 THEN RInt(NODAL_POINTS[band].post_ddrb_pay)
  ELSE pay_progression_nominal[k]

\* C19: the basic pay cost of a year is (nominal pay - reference pay) * head
\* count, the reference being the offered pay in year 0 and the previous
\* year's nominal pay afterwards.
C19_ReferenceIsOfferedPay ==
  eng_pc = "years" =>
    \A k \in RecordedYears :
      REq(yearly_basic_costs[k],
          RMul(RSub(pay_progression_nominal[k + 1], ClaimedReference(k)),
               RInt(doctor_counts[NODAL_POINTS[band].name])))

\* basicPay + basicPay/40*additionalHours + basicPay/40*outOfHours*0.37
TotalPayOf(basic_pay) ==
  RAdd(RAdd(basic_pay, RMul(RDiv(basic_pay, RInt(40)), RInt(additional_hours))),
       RMul(RMul(RDiv(basic_pay, RInt(40)), RInt(out_of_hours)), RDec(37, 100)))

\* C20: for every band and year the total cost is (current total pay -
\* reference total pay) * head count + pension cost + employer NI cost, total
\* pay being basic pay + basic/40*additional hours + basic/40*out of hours*0.37
\* and the reference the pay the year started from; the net cost is the total
\* cost - the tax recouped.
C20_TotalAndNetCost ==
  eng_pc = "years" =>
    \A k \in RecordedYears :
      /\ REq(yearly_total_costs[k],
             RAdd(RAdd(RMul(RSub(TotalPayOf(pay_progression_nominal[k + 1]),
                                 TotalPayOf(pay_progression_nominal[k])),
                            RInt(doctor_counts[NODAL_POINTS[band].name])),
                       yearly_pension_costs[k]),
                  yearly_employer_ni_costs[k]))
      /\ REq(yearly_net_costs[k],
             RSub(yearly_total_costs[k], yearly_tax_recouped[k]))

\* a year of a staffed nodal point, worked with additional and out-of-hours
\* work, that costs pay, pension, employer NI and recoups tax
C20_Witness ==
  /\ eng_pc = "years"
  /\ year = 2
  /\ additional_hours > 0
  /\ out_of_hours > 0
  /\ yearly_total_costs[2].s # 0
  /\ yearly_pension_costs[2].s # 0
  /\ yearly_employer_ni_costs[2].s # 0
  /\ yearly_tax_recouped[2].s # 0

(***************************************************************************)
(* Claims about the window of the target and the two implementations.      *)
(***************************************************************************)
ScriptYears == {get_pay_data[i].year : i \in 1..Len(get_pay_data)}

\* C21: the window of a target is half-open, [start, end): in
\* calculate_fpr_percentage and in calculate_fpr_detailed alike the result is
\* computed from the records of the start year up to, not including, the end
\* year.
C21_WindowHalfOpen ==
  /\ (/\ fpr_pc = "done"
      /\ fpr_raised = "none"
      /\ start_year \in TableYears
      /\ end_year \in TableYears
      /\ YearPos(start_year) < YearPos(end_year)) =>
       /\ start_index = YearPos(start_year) - 1
       /\ idx = YearPos(end_year) - 1
  /\ (/\ det_pc = "done"
      /\ det_start_year \in ScriptYears
      /\ det_end_year \in ScriptYears
      /\ YearPos(det_start_year) < YearPos(det_end_year)) =>
       REq(det_result.cumulative_effect,
           WindowEffect(DetailedPayData(det_nodal_point.name),
                        InflationKey(det_inflation_type),
                        YearPos(det_start_year), YearPos(det_end_year) - 1))

\* C22: for the open year 2025/2026 the calculation takes the inflation from
\* the projected rate the caller supplies for the selected measure
\* (year_inputs[0]), not from a value fixed in the table: whenever the row of
\* 2025/2026 has just been read in a call that was given year_inputs, the rate
\* read is the projected one.
C22_ProjectedInflationUsed ==
  (/\ fpr_pc \in {"loop", "done"}
   /\ fpr_raised = "none"
   /\ idx = Len(pay_data)
   /\ pay_data[idx].year = "2025/2026"
   /\ fpr_year_inputs # <<>>) =>
    REq(inflation_rate,
        RateOf(fpr_year_inputs[1], InflationKey(inflation_type)))

(***************************************************************************)
(* A further claim about the employer's National Insurance.                *)
(***************************************************************************)
\* C23: calculate_employer_ni charges one flat marginal rate, 0.138, on all
\* weekly-equivalent income above 175: for every income >= 0 it returns
\* 0.138 * 52 * max(0, income/52 - 175), whichever band the income is in.
C23_EmployerNiFlatRate ==
  (tax_fn = "calculate_employer_ni" /\ RLe(RZero, tax_income)) =>
    REq(tax_value,
        RMul(RMul(RDec(138, 1000), RInt(52)),
             RMax(RZero, RSub(RDiv(tax_income, RInt(52)), RInt(175)))))

\* an income of 200000, beyond the last threshold (967 a week is 50284 a
\* year): the contribution is 0.138 * (200000 - 9100) = 26344.20
C23_Witness ==
  /\ tax_fn = "calculate_employer_ni"
  /\ REq(tax_income, RInt(200000))
  /\ REq(tax_value, RDec(2634420, 100))

(***************************************************************************)
(* Further claims about the target calculation and the two implementations.*)
(***************************************************************************)
\* C24: the calls of calculate_fpr_percentage share no state: in any sequence
\* of calls, with a band, an unknown band or none, the table a call works on
\* holds the awards of its own band argument only, and the call returns the
\* value the function has for its arguments alone; what an earlier call wrote
\* for its band is not seen.
C24_CallsIndependent ==
  /\ fpr_pc \in {"loop", "done"} => pay_data = OverriddenPayData(nodal_point)
  /\ (fpr_pc = "done" /\ fpr_raised = "none") =>
       REq(fpr_percentage,
           calculate_fpr_percentage(start_year, end_year, inflation_type,
                                    nodal_point, fpr_year_inputs))

\* after a call for Nodal 1 (2023/2024 award 0.1401) a call without a band over
\* the 2023/2024 row returns the value of the average award 0.04 at RPI 0.033
C24_Witness ==
  /\ fpr_pc = "done"
  /\ fpr_earlier = "Nodal 1"
  /\ nodal_point = "None"
  /\ inflation_type = "RPI"
  /\ start_year = "2023/2024"
  /\ end_year = "2024/2025"
  /\ REq(fpr_percentage,
         RMul(RSub(RDiv(RDec(1033, 1000), RDec(1040, 1000)), ROne), RInt(100)))

\* 1 + p/100, the factor a percentage p stands for
GrowthOf(p) == RAdd(ROne, RDiv(p, RInt(100)))

\* the years of the table a call is made with
CalledTableYears == FprYears \cap TableYears

\* C28: targets compose over adjacent windows: for every band, measure and
\* years a < b < c of the table, 1 + fpr(a, c)/100 is the product of
\* 1 + fpr(a, b)/100 and 1 + fpr(b, c)/100, fpr(x, y) being the value of
\* calculate_fpr_percentage(x, y, measure, band).
C28_TargetsCompose ==
  (/\ fpr_pc = "done"
   /\ fpr_raised = "none"
   /\ start_year \in TableYears
   /\ end_year \in TableYears) =>
    \A b \in CalledTableYears :
      (YearPos(start_year) < YearPos(b) /\ YearPos(b) < YearPos(end_year)) =>
        REq(GrowthOf(fpr_percentage),
            RMul(GrowthOf(calculate_fpr_percentage(start_year, b, inflation_type,
                                                   nodal_point, fpr_year_inputs)),
                 GrowthOf(calculate_fpr_percentage(b, end_year, inflation_type,
                                                   nodal_point, fpr_year_inputs))))

\* the target of Nodal 4 at CPI from 2009/2010 to 2025/2026 is returned; split
\* at 2023/2024, both parts are targets other than 0
C28_Witness ==
  /\ fpr_pc = "done"
  /\ fpr_raised = "none"
  /\ start_year = "2009/2010"
  /\ end_year = "2025/2026"
  /\ nodal_point = "Nodal 4"
  /\ inflation_type = "CPI"
  /\ RGt(calculate_fpr_percentage("2009/2010", "2023/2024", "CPI", "Nodal 4", <<>>),
         RZero)
  /\ RLt(calculate_fpr_percentage("2023/2024", "2025/2026", "CPI", "Nodal 4", <<>>),
         RZero)
  /\ RGt(fpr_percentage, RZero)

\* next(y): the year that follows y in AVAILABLE_YEARS
NextYear(y) == AVAILABLE_YEARS[YearPos(y) + 1]

\* C29: the two implementations agree up to a shift of the window by one
\* year: for every band, measure and years start < end of the script's table,
\* the fpr_percentage of calculate_fpr_detailed(band, measure, start, end) is
\* the value of calculate_fpr_percentage(next(start), next(end), measure,
\* band); and the script's result satisfies
\* (1 + fpr_percentage/100) * (1 - pay_erosion/100) = 1.
C29_ImplementationsAgreeShifted ==
  (/\ det_pc = "done"
   /\ det_start_year \in ScriptYears
   /\ det_end_year \in ScriptYears
   /\ YearPos(det_start_year) < YearPos(det_end_year)) =>
    /\ REq(det_result.fpr_percentage,
           calculate_fpr_percentage(NextYear(det_start_year),
                                    NextYear(det_end_year), det_inflation_type,
                                    det_nodal_point.name, <<>>))
    /\ REq(RMul(GrowthOf(det_result.fpr_percentage),
                RSub(ROne, RDiv(det_result.pay_erosion, RInt(100)))),
           ROne)

\* the script's run for Nodal 1 at RPI from 2009/2010 to 2024/2025: the start
\* year's row is written as SKIPPED, the end year's row is applied, and both
\* a target and an erosion above 0 are returned
C29_Witness ==
  /\ det_pc = "done"
  /\ det_nodal_point = NODAL_POINTS[1]
  /\ det_inflation_type = "RPI"
  /\ det_start_year = "2009/2010"
  /\ det_end_year = "2024/2025"
  /\ det_output[1] = [year |-> "2009/2010", line |-> "SKIPPED"]
  /\ det_output[Len(det_output)] = [year |-> "2024/2025", line |-> "change"]
  /\ RGt(det_result.fpr_percentage, RZero)
  /\ RGt(det_result.pay_erosion, RZero)

(***************************************************************************)
(* Further claims about the yearly progression and the costs.              *)
(***************************************************************************)
\* (1 + fprTarget/100) * (1 + inflationRate) - 1 of recorded year k of the
\* nodal point in progress
AdjustedTargetOf(k) ==
  RSub(RMul(GrowthOf(fpr_percentages[NODAL_POINTS[band].name]),
            RAdd(ROne, year_inputs[k].inflation)),
       ROne)

\* C26: in every year whose inflation-adjusted target is positive the two
\* measures reported agree: FPR Progress is at least 100 exactly when the
\* Real Terms Pay Cut is at most 0, and is 100 exactly when the cut is 0.
C26_ProgressAgreesWithPayCut ==
  eng_pc = "years" =>
    \A k \in RecordedYears :
      RGt(AdjustedTargetOf(k), RZero) =>
        /\ RLe(RInt(100), fpr_progress[k + 1]) <=> RLe(real_terms_pay_cuts[k + 1], RZero)
        /\ REq(fpr_progress[k + 1], RInt(100)) <=> REq(real_terms_pay_cuts[k + 1], RZero)

\* a nodal point whose first year, at an inflation above 0, meets the adjusted
\* target exactly (progress 100, cut 0) and whose second year exceeds it
\* (progress above 100, cut below 0)
C26_Witness ==
  /\ eng_pc = "years"
  /\ Len(fpr_progress) = 3
  /\ RGt(year_inputs[1].inflation, RZero)
  /\ RGt(AdjustedTargetOf(1), RZero)
  /\ REq(fpr_progress[2], RInt(100))
  /\ REq(real_terms_pay_cuts[2], RZero)
  /\ RGt(AdjustedTargetOf(2), RZero)
  /\ RGt(fpr_progress[3], RInt(100))
  /\ RLt(real_terms_pay_cuts[3], RZero)

\* the inputs of the nodal point in progress are all at least 0
InputsNotNegative ==
  /\ doctor_counts[NODAL_POINTS[band].name] >= 0
  /\ \A k \in 1..Len(year_inputs) :
       /\ RLe(RZero, year_inputs[k].nodal_percentages[NODAL_POINTS[band].name])
       /\ RLe(RZero, year_inputs[k].pound_increases[NODAL_POINTS[band].name])
       /\ RLe(RZero, year_inputs[k].inflation)

\* C27: when every percentage, consolidated increase, inflation and the head
\* count are at least 0, the nominal pay never decreases from base_pay on, and
\* in every year the basic pay, pension, employer NI and total costs and the
\* tax recouped are at least 0 and the net cost is at most the total cost.
C27_CostsNotNegative ==
  (eng_pc = "years" /\ InputsNotNegative) =>
    /\ REq(pay_progression_nominal[1], RInt(NODAL_POINTS[band].base_pay))
    /\ \A k \in RecordedYears :
         /\ RLe(pay_progression_nominal[k], pay_progression_nominal[k + 1])
         /\ RLe(RZero, yearly_basic_costs[k])
         /\ RLe(RZero, yearly_pension_costs[k])
         /\ RLe(RZero, yearly_employer_ni_costs[k])
         /\ RLe(RZero, yearly_total_costs[k])
         /\ RLe(RZero, yearly_tax_recouped[k])
         /\ RLe(yearly_net_costs[k], yearly_total_costs[k])

\* Nodal 3 with staff: a rise of 10% takes the pay from 49909 across the
\* thresholds of 50270 a year (income tax) and 967 a week (National
\* Insurance); tax is recouped and the net cost is below the total cost
C27_Witness ==
  /\ eng_pc = "years"
  /\ InputsNotNegative
  /\ NODAL_POINTS[band].name = "Nodal 3"
  /\ doctor_counts["Nodal 3"] > 0
  /\ additional_hours = 0
  /\ out_of_hours = 0
  /\ Len(pay_progression_nominal) >= 2
  /\ REq(pay_progression_nominal[2], RDec(548999, 10))
  /\ RGt(yearly_tax_recouped[1], RZero)
  /\ RLt(yearly_net_costs[1], yearly_total_costs[1])


\* ---- C25 ------------------------------------------------------------------
\* C25: after any sequence of start-year and end-year selections,
\* update_end_year_options has not raised, end_year_options is exactly the
\* years after fpr_start_year in AVAILABLE_YEARS, and fpr_end_year is one of
\* them and so comes later than fpr_start_year - for every start year the
\* select box offers, the last year of AVAILABLE_YEARS included.
C25_EndYearFollowsStartYear ==
  /\ ui_raised = "none"
  /\ session_state.end_year_options = EndYearOptions(session_state.fpr_start_year)
  /\ \E i \in 1..Len(session_state.end_year_options) :
       session_state.end_year_options[i] = session_state.fpr_end_year
  /\ AvailableIndex(session_state.fpr_end_year)
       > AvailableIndex(session_state.fpr_start_year)

\* ---- C30 ------------------------------------------------------------------
\* C30: in the run that follows update_global_settings, the inflation setting
\* of every year 1..num_years equals global_inflation and
\* check_individual_changes() returned False (no warning), whatever
\* global_pay_rise is, 0 included.
C30_GlobalSettingsLeaveNoWarning ==
  ui_event \in {"global_inflation", "global_pay_rise"} =>
    /\ \A y \in 1..session_state.num_years :
         REq(session_state.inflation[y], session_state.global_inflation)
    /\ warning = FALSE
=============================================================================
